---- MODULE Spec2Model ----
(***************************************************************************)
(* A model of wacc, a compiler from a subset of C to WebAssembly.          *)
(*                                                                         *)
(*   SpecLex  the lexer (src/src/lexer.c) run over a source buffer         *)
(*   SpecSem  the semantic walk (semantic_analyze) run over a tree         *)
(*   SpecNode the lowering of one tree node and the emission of its code   *)
(*   SpecParse  the parser (src/arena.c) run over a token sequence         *)
(*   SpecErr  calls of error_list_add on one list (src/src/error.c)        *)
(*   SpecArena  calls of arena_alloc on one arena (src/arena.c)            *)
(*   Spec     the driver (src/src/main.c): parse result, gate, IR          *)
(*            lowering, WASM emission, and a run of the emitted module     *)
(***************************************************************************)
EXTENDS Integers, Sequences, FiniteSets, TLC

VARIABLES
  pc,         \* where the run is
  lexer,      \* struct Lexer: source, current (offset), line, column
  token,      \* the Token returned by the last lexer_next_token call
  lexed,      \* history: bytes accounted for so far (tokens, skipped)
  errors,     \* struct ErrorList
  fault,      \* the process has dereferenced an invalid pointer
  sem,        \* struct SemanticContext and the pending calls of the walk
  gen,        \* the lowering of one tree node: its region and code
  drv,        \* the driver's locals: options, tree, module, file, exit code
  parser,     \* struct Parser, and the tree parser_parse_program returned
  heap        \* struct Arena: its chunks, and the regions arena_alloc returned

vars == <<pc, lexer, token, lexed, errors, fault, sem, gen, drv, parser, heap>>

NULL == "NULL"
ARENA == "arena"

\* The values of sem, gen, drv, parser and heap while their phase is not run.
NoWalk == [ast |-> NULL]
NoLowering == [node |-> NULL]
NoDriver == [source |-> NULL]
NoParser == [tokens |-> NULL]
NoHeap == [head |-> NULL]

(***************************************************************************)
(* Bounds of the model.                                                    *)
(***************************************************************************)
MaxSrcLen == 3
MaxFairSrcLen == 2
MaxSemStmts == 2
MaxLoopIterations == 4
MaxRepeat == 13
MaxDiagnostics == 17
MaxExprDepth == 2
MaxFreeAdds == 3
MaxAllocs == 4

(***************************************************************************)
(* Diagnostics (src/src/error.c, src/src/compiler.h).                      *)
(***************************************************************************)
ERROR_LEX_INVALID_CHARACTER == 1001

ErrorLevels == {"ERROR_LEXICAL", "ERROR_SYNTAX", "ERROR_SEMANTIC", "ERROR_CODEGEN", "WARNING"}

ERROR_LIST_INITIAL_CAPACITY == 16

error_list_create ==
  [errors |-> <<>>, count |-> 0, capacity |-> ERROR_LIST_INITIAL_CAPACITY,
   has_fatal_errors |-> FALSE]

\* error_list_resize calls arena_alloc(arena, ...), which reads arena->head:
\* with the NULL arena the lexer and the parser pass, that read faults.
error_list_add_faults(errs, arena) ==
  errs.count >= errs.capacity /\ arena = NULL

error_list_resize(errs) ==
  [errs EXCEPT !.capacity = errs.capacity * 2]

\* error_list_add with the flag set whatever the level of the entry.
error_list_add_any_level(errs, arena, id, level, line, column) ==
  IF error_list_add_faults(errs, arena) THEN errs
  ELSE
    LET e1 == IF errs.count >= errs.capacity THEN error_list_resize(errs) ELSE errs
    IN  IF e1.count >= e1.capacity THEN e1
        ELSE [e1 EXCEPT
               !.errors = Append(@, [id |-> id, level |-> level,
                                     line |-> line, column |-> column]),
               !.count = @ + 1,
               !.has_fatal_errors = TRUE]

error_list_add(errs, arena, id, level, line, column) ==
  IF error_list_add_faults(errs, arena) THEN errs
  ELSE
    LET e1 == IF errs.count >= errs.capacity THEN error_list_resize(errs) ELSE errs
    IN  IF e1.count >= e1.capacity THEN e1
        ELSE [e1 EXCEPT
               !.errors = Append(@, [id |-> id, level |-> level,
                                     line |-> line, column |-> column]),
               !.count = @ + 1,
               !.has_fatal_errors =
                  IF level \in {"ERROR_LEXICAL", "ERROR_SYNTAX", "ERROR_SEMANTIC", "ERROR_CODEGEN"}
                  THEN TRUE ELSE @]

\* The list the driver passes is never NULL (main returns when it is).
error_list_has_errors(errs) == errs.has_fatal_errors

(***************************************************************************)
(* Characters (src/src/utils.c).  A source buffer is a C string: a         *)
(* sequence of non-NUL bytes followed by the terminating NUL, which is     *)
(* what a read at offset Len(source) yields.                               *)
(***************************************************************************)
NUL == "NUL"

LowerCase == {"a", "b", "c", "d", "e", "f", "g", "h", "i", "j", "k", "l", "m",
              "n", "o", "p", "q", "r", "s", "t", "u", "v", "w", "x", "y", "z"}
UpperCase == {"A", "B", "C", "D", "E", "F", "G", "H", "I", "J", "K", "L", "M",
              "N", "O", "P", "Q", "R", "S", "T", "U", "V", "W", "X", "Y", "Z"}
DigitChars == {"0", "1", "2", "3", "4", "5", "6", "7", "8", "9"}

\* "FF" and "VT" stand for the form-feed and vertical-tab bytes.
is_space(c) == c \in {" ", "\t", "\n", "\r", "FF", "VT"}
is_alpha(c) == c \in LowerCase \/ c \in UpperCase
is_digit(c) == c \in DigitChars
is_alnum(c) == is_alpha(c) \/ is_digit(c)

is_identifier_start(c) == is_alpha(c) \/ c = "_"
is_identifier_char(c) == is_alnum(c) \/ c = "_"

\* The byte at offset i of the buffer.
CharAt(src, i) ==
  IF i < Len(src) THEN src[i + 1]
  ELSE IF i = Len(src) THEN NUL
  ELSE "OUT_OF_BUFFER"

(***************************************************************************)
(* The lexer (src/src/lexer.c).                                            *)
(***************************************************************************)
lexer_create(src) == [source |-> src, current |-> 0, line |-> 1, column |-> 1]

Cur(lx) == CharAt(lx.source, lx.current)

RECURSIVE skip_whitespace(_)
skip_whitespace(lx) ==
  IF is_space(Cur(lx))
  THEN skip_whitespace([lx EXCEPT
         !.line = IF Cur(lx) = "\n" THEN @ + 1 ELSE @,
         !.column = IF Cur(lx) = "\n" THEN 1 ELSE @ + 1,
         !.current = @ + 1])
  ELSE lx

RECURSIVE skip_line_comment(_)
skip_line_comment(lx) ==
  IF Cur(lx) # NUL /\ Cur(lx) # "\n"
  THEN skip_line_comment([lx EXCEPT !.current = @ + 1, !.column = @ + 1])
  ELSE lx

\* Mutant: a lone '/' is taken for the start of a comment.
RECURSIVE skip_whitespace_and_comments_lone_slash(_)
skip_whitespace_and_comments_lone_slash(lx) ==
  LET a == skip_whitespace(lx)
  IN  IF Cur(a) = "/"
      THEN skip_whitespace_and_comments_lone_slash(
             skip_line_comment([a EXCEPT !.current = @ + 1, !.column = @ + 1]))
      ELSE a

\* The loop at the head of lexer_next_token.
RECURSIVE skip_whitespace_and_comments(_)
skip_whitespace_and_comments(lx) ==
  LET a == skip_whitespace(lx)
  IN  IF Cur(a) = "/" /\ CharAt(a.source, a.current + 1) = "/"
      THEN skip_whitespace_and_comments(
             skip_line_comment([a EXCEPT !.current = @ + 2, !.column = @ + 2]))
      ELSE a

get_keyword_type(lexeme) ==
  IF lexeme = <<"i", "n", "t">> THEN "TOKEN_INT"
  ELSE IF lexeme = <<"r", "e", "t", "u", "r", "n">> THEN "TOKEN_RETURN"
  ELSE "TOKEN_IDENTIFIER"

SingleCharToken(c) ==
  CASE c = "(" -> "TOKEN_OPEN_PAREN"
    [] c = ")" -> "TOKEN_CLOSE_PAREN"
    [] c = "{" -> "TOKEN_OPEN_BRACE"
    [] c = "}" -> "TOKEN_CLOSE_BRACE"
    [] c = ";" -> "TOKEN_SEMICOLON"
    [] c = "~" -> "TOKEN_TILDE"
    [] c = "-" -> "TOKEN_MINUS"
    [] c = "+" -> "TOKEN_PLUS"
    [] c = "*" -> "TOKEN_STAR"
    [] c = "/" -> "TOKEN_SLASH"
    [] c = "%" -> "TOKEN_PERCENT"

SingleChars == {"(", ")", "{", "}", ";", "~", "-", "+", "*", "/", "%"}

\* c followed by '=' is a two-character token, c alone a one-character one.
WithEqToken(c) ==
  CASE c = "<" -> "TOKEN_LT_EQ"
    [] c = ">" -> "TOKEN_GT_EQ"
    [] c = "!" -> "TOKEN_BANG_EQ"
    [] c = "=" -> "TOKEN_EQ_EQ"

AloneToken(c) ==
  CASE c = "<" -> "TOKEN_LT"
    [] c = ">" -> "TOKEN_GT"
    [] c = "!" -> "TOKEN_BANG"
    [] c = "=" -> "TOKEN_EQ"

EqChars == {"<", ">", "!", "="}

DoubledToken(c) ==
  CASE c = "&" -> "TOKEN_AMP_AMP"
    [] c = "|" -> "TOKEN_PIPE_PIPE"

DoubledChars == {"&", "|"}

RECURSIVE skip_identifier_chars(_)
skip_identifier_chars(lx) ==
  IF is_identifier_char(Cur(lx))
  THEN skip_identifier_chars([lx EXCEPT !.current = @ + 1, !.column = @ + 1])
  ELSE lx

RECURSIVE skip_digits(_)
skip_digits(lx) ==
  IF is_digit(Cur(lx))
  THEN skip_digits([lx EXCEPT !.current = @ + 1, !.column = @ + 1])
  ELSE lx

\* Mutant: the byte is read without moving the cursor.
Advance_stuck(lx) == lx

\* char c = *lexer->current++; lexer->column++;
Advance(lx) == [lx EXCEPT !.current = @ + 1, !.column = @ + 1]

\* The result of one call: the lexer after it, the token returned, and the
\* lexical errors recorded (none or one, with its line and column).
lexer_next_token(lx0) ==
  LET s == skip_whitespace_and_comments(lx0)
      tok(type, length) ==
        [type |-> type, start |-> s.current, length |-> length,
         line |-> s.line, column |-> s.column]
      c == Cur(s)
      a == Advance(s)
      err(l) == [line |-> l.line, column |-> l.column - 1]
  IN  IF c = NUL
      THEN [lexer |-> s, token |-> tok("TOKEN_EOF", 0), error |-> <<>>]
      ELSE IF c \in SingleChars
      THEN [lexer |-> a, token |-> tok(SingleCharToken(c), 1), error |-> <<>>]
      ELSE IF c \in EqChars
      THEN IF Cur(a) = "="
           THEN [lexer |-> Advance(a), token |-> tok(WithEqToken(c), 2), error |-> <<>>]
           ELSE [lexer |-> a, token |-> tok(AloneToken(c), 1), error |-> <<>>]
      ELSE IF c \in DoubledChars
      THEN IF Cur(a) = c
           THEN [lexer |-> Advance(a), token |-> tok(DoubledToken(c), 2), error |-> <<>>]
           ELSE [lexer |-> a, token |-> tok("TOKEN_ERROR", 1), error |-> <<err(a)>>]
      ELSE IF is_identifier_start(c)
      THEN LET e == skip_identifier_chars(a)
               n == e.current - s.current
           IN  [lexer |-> e,
                token |-> tok(get_keyword_type(SubSeq(s.source, s.current + 1, s.current + n)), n),
                error |-> <<>>]
      ELSE IF is_digit(c)
      THEN LET e == skip_digits(a)
           IN  [lexer |-> e, token |-> tok("TOKEN_INTEGER_LITERAL", e.current - s.current),
                error |-> <<>>]
      ELSE [lexer |-> a, token |-> tok("TOKEN_ERROR", 1), error |-> <<err(a)>>]

NoToken == [type |-> "none", start |-> 0, length |-> 0, line |-> 0, column |-> 0]

(***************************************************************************)
(* SpecLex: a source buffer, then calls of lexer_next_token.               *)
(***************************************************************************)
\* One byte of each class the lexer tells apart: blank, newline, the comment
\* and operator '/', a letter, a digit, a doubled operator, an operator that
\* may take '=', and a byte no token starts with.
LexAlphabet == {" ", "\n", "/", "x", "7", "&", "=", "?"}

RECURSIVE SeqsUpTo(_, _)
SeqsUpTo(S, n) ==
  IF n = 0 THEN {<<>>}
  ELSE LET shorter == SeqsUpTo(S, n - 1)
       IN  shorter \cup {Append(s, c) : s \in {t \in shorter : Len(t) = n - 1}, c \in S}

\* The words and punctuators of the language the alphabet cannot spell: the
\* reserved words, two identifiers that begin like one, and '?' and ':'.
KeywordSources ==
  { <<"i", "n", "t">>, <<"r", "e", "t", "u", "r", "n">>, <<"i", "f">>,
    <<"e", "l", "s", "e">>, <<"w", "h", "i", "l", "e">>, <<"d", "o">>,
    <<"b", "r", "e", "a", "k">>, <<"c", "o", "n", "t", "i", "n", "u", "e">>,
    <<"i", "n", "t", "o">>, <<"d", "o", "7">>, <<"I", "f">>,
    <<":">>, <<"x", "?", "7", ":", "x">> }

Sources == SeqsUpTo(LexAlphabet, MaxSrcLen) \cup KeywordSources

NoLexer == lexer_create(<<>>)

InitLex ==
  /\ pc = "lexer_create"
  /\ lexer = NoLexer
  /\ token = NoToken
  /\ lexed = [tokens |-> 0, skipped |-> 0]
  /\ errors = error_list_create
  /\ fault = FALSE
  /\ sem = NoWalk
  /\ gen = NoLowering
  /\ drv = NoDriver
  /\ parser = NoParser
  /\ heap = NoHeap

\* The driver hands the lexer the source buffer it has read.
LexerCreate ==
  /\ pc = "lexer_create"
  /\ \E src \in Sources : lexer' = lexer_create(src)
  /\ pc' = "lexing"
  /\ UNCHANGED <<heap, parser, token, lexed, errors, fault, sem, gen, drv>>

LexerNextToken ==
  /\ pc = "lexing"
  /\ ~fault
  /\ pc' = pc
  /\ UNCHANGED <<heap, parser, sem, gen, drv>>
  /\ LET r == lexer_next_token(lexer)
     IN  /\ lexer' = r.lexer
         /\ token' = r.token
         /\ lexed' = [tokens |-> lexed.tokens + r.token.length,
                      skipped |-> lexed.skipped + (r.token.start - lexer.current)]
         /\ IF r.error = <<>>
            THEN errors' = errors /\ fault' = fault
            ELSE /\ fault' = error_list_add_faults(errors, NULL)
                 /\ errors' = error_list_add(errors, NULL, ERROR_LEX_INVALID_CHARACTER,
                                             "ERROR_LEXICAL", r.error[1].line, r.error[1].column)

NextLex == LexerCreate \/ LexerNextToken

SpecLex == InitLex /\ [][NextLex]_vars

\* The caller keeps calling lexer_next_token (the premise of "repeated calls").
\* Behaviours are checked for liveness over the shorter sources.
LexerCreateShort ==
  /\ pc = "lexer_create"
  /\ \E src \in SeqsUpTo(LexAlphabet, MaxFairSrcLen) : lexer' = lexer_create(src)
  /\ pc' = "lexing"
  /\ UNCHANGED <<heap, parser, token, lexed, errors, fault, sem, gen, drv>>

NextLexFair == LexerCreateShort \/ LexerNextToken

SpecLexFair == InitLex /\ [][NextLexFair]_vars /\ WF_vars(NextLexFair)

SkippableByte(src, from, i) ==
  \/ is_space(CharAt(src, i))
  \/ \E j \in from .. i :
        /\ CharAt(src, j) = "/"
        /\ CharAt(src, j + 1) = "/"
        /\ j + 1 <= i \/ j = i
        /\ \A k \in j .. i : CharAt(src, k) # "\n"

C7_TokensTileSource ==
  /\ [][ pc = "lexing" =>
           /\ lexer'.current = token'.start + token'.length
           /\ token'.start >= lexer.current
           /\ \A i \in lexer.current .. token'.start - 1 :
                 SkippableByte(lexer.source, lexer.current, i) ]_vars
  /\ [](token.type = "TOKEN_EOF" =>
          lexed.tokens + lexed.skipped = Len(lexer.source))

\* EOF is returned after a token and a skipped comment or blank.
C7_Witness ==
  /\ token.type = "TOKEN_EOF"
  /\ lexed.tokens >= 1
  /\ lexed.skipped >= 2

(***************************************************************************)
(* Trees (struct ASTNode, src/src/compiler.h).  A node carries its type,   *)
(* its position and the fields of its variant; NULL_NODE is the absent     *)
(* subtree (a NULL ASTNode pointer).                                       *)
(***************************************************************************)
NULL_NODE == [type |-> "NULL"]

IntegerConstant(v, c) ==
  [type |-> "AST_INTEGER_CONSTANT", line |-> 1, column |-> c, value |-> v]
VariableRef(n, c) ==
  [type |-> "AST_VARIABLE_REF", line |-> 1, column |-> c, name |-> n]
UnaryOp(op, e, c) ==
  [type |-> "AST_UNARY_OP", line |-> 1, column |-> c, operator |-> op, operand |-> e]
BinaryOp(op, l, r, c) ==
  [type |-> "AST_BINARY_OP", line |-> 1, column |-> c, operator |-> op,
   left |-> l, right |-> r]
Assignment(n, v, c) ==
  [type |-> "AST_ASSIGNMENT", line |-> 1, column |-> c, name |-> n, value |-> v]
TernaryExpression(cnd, t, f, c) ==
  [type |-> "AST_TERNARY_EXPRESSION", line |-> 1, column |-> c, condition |-> cnd,
   true_expression |-> t, false_expression |-> f]
ReturnStatement(e, c) ==
  [type |-> "AST_RETURN_STATEMENT", line |-> 1, column |-> c, expression |-> e]
VariableDecl(n, init, c) ==
  [type |-> "AST_VARIABLE_DECL", line |-> 1, column |-> c, name |-> n,
   initializer |-> init]
IfStatement(cnd, t, e, c) ==
  [type |-> "AST_IF_STATEMENT", line |-> 1, column |-> c, condition |-> cnd,
   then_statement |-> t, else_statement |-> e]
WhileStatement(cnd, b, c) ==
  [type |-> "AST_WHILE_STATEMENT", line |-> 1, column |-> c, condition |-> cnd,
   body |-> b]
BreakStatement(c) == [type |-> "AST_BREAK_STATEMENT", line |-> 1, column |-> c]
ContinueStatement(c) == [type |-> "AST_CONTINUE_STATEMENT", line |-> 1, column |-> c]
CompoundStatement(stmts, c) ==
  [type |-> "AST_COMPOUND_STATEMENT", line |-> 1, column |-> c, statements |-> stmts]
FunctionNode(stmts) ==
  [type |-> "AST_FUNCTION", line |-> 1, column |-> 1, name |-> "main",
   statements |-> stmts]
ProgramNode(fn) ==
  [type |-> "AST_PROGRAM", line |-> 1, column |-> 1, function |-> fn]

\* The node with every position in it moved to line l.
RECURSIVE AtLine(_, _)
AtLine(n, l) ==
  IF n.type = "NULL" THEN n
  ELSE
    LET m == [n EXCEPT !.line = l]
        t == n.type
    IN  CASE t = "AST_UNARY_OP" -> [m EXCEPT !.operand = AtLine(@, l)]
          [] t = "AST_BINARY_OP" ->
               [m EXCEPT !.left = AtLine(@, l), !.right = AtLine(@, l)]
          [] t = "AST_ASSIGNMENT" -> [m EXCEPT !.value = AtLine(@, l)]
          [] t = "AST_TERNARY_EXPRESSION" ->
               [m EXCEPT !.condition = AtLine(@, l),
                         !.true_expression = AtLine(@, l),
                         !.false_expression = AtLine(@, l)]
          [] t = "AST_RETURN_STATEMENT" -> [m EXCEPT !.expression = AtLine(@, l)]
          [] t = "AST_VARIABLE_DECL" -> [m EXCEPT !.initializer = AtLine(@, l)]
          [] t = "AST_IF_STATEMENT" ->
               [m EXCEPT !.condition = AtLine(@, l),
                         !.then_statement = AtLine(@, l),
                         !.else_statement = AtLine(@, l)]
          [] t = "AST_WHILE_STATEMENT" ->
               [m EXCEPT !.condition = AtLine(@, l), !.body = AtLine(@, l)]
          [] t = "AST_COMPOUND_STATEMENT" ->
               [m EXCEPT !.statements =
                           [i \in 1 .. Len(@) |-> AtLine(@[i], l)]]
          [] OTHER -> m

\* The program  int main() { stmts }  with statement i written on line i.
ProgramOf(stmts) ==
  ProgramNode(FunctionNode([i \in 1 .. Len(stmts) |-> AtLine(stmts[i], i)]))

(***************************************************************************)
(* The semantic walk (src/unnamed/part_004).  A SymbolTable and its chain  *)
(* of parents is the sequence of the scopes' name lists, the innermost     *)
(* scope last.                                                             *)
(***************************************************************************)
ERROR_SEM_UNDEFINED_VARIABLE == 3001
ERROR_SEM_REDEFINITION == 3004
ERROR_SEM_BREAK_OUTSIDE_LOOP == 3007
ERROR_SEM_CONTINUE_OUTSIDE_LOOP == 3008
ERROR_SEM_DEPENDENT_STATEMENT_ASSIGNMENT == 3009

symbol_table_create(parent) == Append(parent, <<>>)

RECURSIVE symbol_table_lookup(_, _)
symbol_table_lookup(table, name) ==
  IF \E i \in 1 .. Len(table[Len(table)]) : table[Len(table)][i] = name
  THEN TRUE
  ELSE IF Len(table) > 1
       THEN symbol_table_lookup(SubSeq(table, 1, Len(table) - 1), name)
       ELSE FALSE

symbol_table_lookup_any_scope(table, name) == symbol_table_lookup(table, name)

symbol_table_lookup_current_scope(table, name) ==
  \E i \in 1 .. Len(table[Len(table)]) : table[Len(table)][i] = name

\* The names array grows through arena_alloc, which never fails.
symbol_table_add(table, name) ==
  [table EXCEPT ![Len(table)] = Append(@, name)]

report_semantic_error(errs, error_id, line, column) ==
  error_list_add(errs, ARENA, error_id, "ERROR_SEMANTIC", line, column)

\* analyze_expression changes nothing but the diagnostics list: its result
\* is the list after the call and the value it returns.
RECURSIVE analyze_expression(_, _, _)
analyze_expression(errs, scope, expr) ==
  IF expr.type = "NULL" THEN [errors |-> errs, ok |-> TRUE]
  ELSE CASE expr.type = "AST_INTEGER_CONSTANT" -> [errors |-> errs, ok |-> TRUE]
         [] expr.type = "AST_VARIABLE_REF" ->
              IF ~symbol_table_lookup(scope, expr.name)
              THEN [errors |-> report_semantic_error(errs, ERROR_SEM_UNDEFINED_VARIABLE,
                                                     expr.line, expr.column),
                    ok |-> FALSE]
              ELSE [errors |-> errs, ok |-> TRUE]
         [] expr.type = "AST_UNARY_OP" ->
              analyze_expression(errs, scope, expr.operand)
         [] expr.type = "AST_BINARY_OP" ->
              LET left_ok == analyze_expression(errs, scope, expr.left)
                  right_ok == analyze_expression(left_ok.errors, scope, expr.right)
              IN  [errors |-> right_ok.errors, ok |-> left_ok.ok /\ right_ok.ok]
         [] expr.type = "AST_ASSIGNMENT" ->
              IF ~symbol_table_lookup(scope, expr.name)
              THEN [errors |-> report_semantic_error(errs, ERROR_SEM_UNDEFINED_VARIABLE,
                                                     expr.line, expr.column),
                    ok |-> FALSE]
              ELSE analyze_expression(errs, scope, expr.value)
         [] OTHER -> [errors |-> errs, ok |-> TRUE]

(***************************************************************************)
(* analyze_statement, one action per case of its switch.  The calls that   *)
(* are still to be made are kept in sem.pending, the next one first: a     *)
(* statement to analyze, or the code that follows the analysis of a        *)
(* compound statement (restore the scope) or of a loop body (restore the   *)
(* in-loop flag).  Every caller ANDs the value a call returns into its own *)
(* result, so sem.success is the value semantic_analyze returns.           *)
(* sem.walked is the history of the statements analyzed so far.            *)
(***************************************************************************)
StatementCalls(stmts) ==
  [i \in 1 .. Len(stmts) |-> [kind |-> "analyze_statement", node |-> stmts[i]]]

AtStatement(types) ==
  /\ pc = "analyze_statement"
  /\ sem.pending # <<>>
  /\ Head(sem.pending).kind = "analyze_statement"
  /\ Head(sem.pending).node.type \in types

Walked(stmt) ==
  Append(sem.walked, [type |-> stmt.type, line |-> stmt.line, column |-> stmt.column,
                      in_loop |-> sem.in_loop, depth |-> Len(sem.current_scope)])

AnalyzeReturnStatement ==
  /\ AtStatement({"AST_RETURN_STATEMENT"})
  /\ LET stmt == Head(sem.pending).node
         r == analyze_expression(errors, sem.current_scope, stmt.expression)
     IN  /\ errors' = r.errors
         /\ sem' = [sem EXCEPT !.pending = Tail(@), !.success = @ /\ r.ok,
                               !.walked = Walked(stmt)]
  /\ UNCHANGED <<heap, parser, pc, lexer, token, lexed, fault, gen, drv>>

AnalyzeVariableDecl ==
  /\ AtStatement({"AST_VARIABLE_DECL"})
  /\ LET stmt == Head(sem.pending).node
         name == stmt.name
     IN  IF symbol_table_lookup_current_scope(sem.current_scope, name)
         THEN /\ errors' = report_semantic_error(errors, ERROR_SEM_REDEFINITION,
                                                 stmt.line, stmt.column)
              /\ sem' = [sem EXCEPT !.pending = Tail(@), !.success = FALSE,
                                    !.walked = Walked(stmt)]
         ELSE LET scope == symbol_table_add(sem.current_scope, name)
                  r == IF stmt.initializer.type # "NULL"
                       THEN analyze_expression(errors, scope, stmt.initializer)
                       ELSE [errors |-> errors, ok |-> TRUE]
              IN  /\ errors' = r.errors
                  /\ sem' = [sem EXCEPT !.pending = Tail(@), !.current_scope = scope,
                                        !.success = @ /\ r.ok, !.walked = Walked(stmt)]
  /\ UNCHANGED <<heap, parser, pc, lexer, token, lexed, fault, gen, drv>>

\* case AST_ASSIGNMENT and the default case: analyze_expression(ctx, stmt).
AnalyzeExpressionStatement ==
  /\ AtStatement({"AST_ASSIGNMENT", "AST_INTEGER_CONSTANT", "AST_VARIABLE_REF",
                  "AST_UNARY_OP", "AST_BINARY_OP", "AST_TERNARY_EXPRESSION"})
  /\ LET stmt == Head(sem.pending).node
         r == analyze_expression(errors, sem.current_scope, stmt)
     IN  /\ errors' = r.errors
         /\ sem' = [sem EXCEPT !.pending = Tail(@), !.success = @ /\ r.ok,
                               !.walked = Walked(stmt)]
  /\ UNCHANGED <<heap, parser, pc, lexer, token, lexed, fault, gen, drv>>

\* case AST_COMPOUND_STATEMENT up to the loop over its statements.
EnterCompoundStatement ==
  /\ AtStatement({"AST_COMPOUND_STATEMENT"})
  /\ LET stmt == Head(sem.pending).node
     IN  sem' = [sem EXCEPT
                   !.current_scope = symbol_table_create(@),
                   !.pending = StatementCalls(stmt.statements)
                                 \o <<[kind |-> "restore_scope",
                                       previous_scope |-> sem.current_scope]>>
                                 \o Tail(@),
                   !.walked = Walked(stmt)]
  /\ UNCHANGED <<heap, parser, pc, lexer, token, lexed, errors, fault, gen, drv>>

\* The end of a block that leaves the scope of the block in place.
LeaveCompoundStatement_keep_scope ==
  /\ pc = "analyze_statement"
  /\ sem.pending # <<>>
  /\ Head(sem.pending).kind = "restore_scope"
  /\ sem' = [sem EXCEPT !.pending = Tail(@)]
  /\ UNCHANGED <<heap, parser, pc, lexer, token, lexed, errors, fault, gen, drv>>

\* ctx->current_scope = previous_scope: the table of the block is dropped,
\* its parent chain is current again.
LeaveCompoundStatement ==
  /\ pc = "analyze_statement"
  /\ sem.pending # <<>>
  /\ Head(sem.pending).kind = "restore_scope"
  /\ sem' = [sem EXCEPT !.current_scope = SubSeq(@, 1, Len(@) - 1),
                        !.pending = Tail(@)]
  /\ UNCHANGED <<heap, parser, pc, lexer, token, lexed, errors, fault, gen, drv>>

\* The dependent statement of an if is a declaration without braces:
\* stmt && stmt->type == AST_VARIABLE_DECL.
DependentDeclaration_in_braces(stmt) ==
  \/ stmt.type = "AST_VARIABLE_DECL"
  \/ /\ stmt.type = "AST_COMPOUND_STATEMENT"
     /\ \E i \in 1 .. Len(stmt.statements) : stmt.statements[i].type = "AST_VARIABLE_DECL"

DependentDeclaration(stmt) == stmt.type = "AST_VARIABLE_DECL"

\* case AST_IF_STATEMENT up to the analysis of the dependent statements.
AnalyzeIfStatement ==
  /\ AtStatement({"AST_IF_STATEMENT"})
  /\ LET stmt == Head(sem.pending).node
         then_statement == stmt.then_statement
         else_statement == stmt.else_statement
         c == analyze_expression(errors, sem.current_scope, stmt.condition)
         then_decl == DependentDeclaration(then_statement)
         else_decl == DependentDeclaration(else_statement)
         e1 == IF then_decl
               THEN report_semantic_error(c.errors, ERROR_SEM_DEPENDENT_STATEMENT_ASSIGNMENT,
                                          then_statement.line, then_statement.column)
               ELSE c.errors
         e2 == IF else_decl
               THEN report_semantic_error(e1, ERROR_SEM_DEPENDENT_STATEMENT_ASSIGNMENT,
                                          else_statement.line, else_statement.column)
               ELSE e1
     IN  /\ errors' = e2
         /\ sem' = [sem EXCEPT
                      !.success = @ /\ c.ok /\ ~then_decl /\ ~else_decl,
                      !.pending =
                         (IF then_statement.type # "NULL"
                          THEN StatementCalls(<<then_statement>>) ELSE <<>>)
                         \o (IF else_statement.type # "NULL"
                             THEN StatementCalls(<<else_statement>>) ELSE <<>>)
                         \o Tail(@),
                      !.walked = Walked(stmt)]
  /\ UNCHANGED <<heap, parser, pc, lexer, token, lexed, fault, gen, drv>>

\* case AST_WHILE_STATEMENT up to the analysis of the body.
EnterWhileStatement ==
  /\ AtStatement({"AST_WHILE_STATEMENT"})
  /\ LET stmt == Head(sem.pending).node
         c == analyze_expression(errors, sem.current_scope, stmt.condition)
         previous_in_loop == sem.in_loop
     IN  /\ errors' = c.errors
         /\ sem' = [sem EXCEPT
                      !.success = @ /\ c.ok,
                      !.in_loop = TRUE,
                      !.pending =
                         (IF stmt.body.type # "NULL"
                          THEN StatementCalls(<<stmt.body>>) ELSE <<>>)
                         \o <<[kind |-> "restore_loop",
                               previous_in_loop |-> previous_in_loop]>>
                         \o Tail(@),
                      !.walked = Walked(stmt)]
  /\ UNCHANGED <<heap, parser, pc, lexer, token, lexed, fault, gen, drv>>

\* ctx->in_loop = previous_in_loop
RestoredInLoop_left_set(frame) == sem.in_loop

RestoredInLoop(frame) == frame.previous_in_loop

LeaveWhileStatement ==
  /\ pc = "analyze_statement"
  /\ sem.pending # <<>>
  /\ Head(sem.pending).kind = "restore_loop"
  /\ sem' = [sem EXCEPT !.in_loop = RestoredInLoop(Head(sem.pending)),
                        !.pending = Tail(@)]
  /\ UNCHANGED <<heap, parser, pc, lexer, token, lexed, errors, fault, gen, drv>>

AnalyzeBreakStatement ==
  /\ AtStatement({"AST_BREAK_STATEMENT"})
  /\ LET stmt == Head(sem.pending).node
     IN  IF ~sem.in_loop
         THEN /\ errors' = report_semantic_error(errors, ERROR_SEM_BREAK_OUTSIDE_LOOP,
                                                 stmt.line, stmt.column)
              /\ sem' = [sem EXCEPT !.pending = Tail(@), !.success = FALSE,
                                    !.walked = Walked(stmt)]
         ELSE /\ errors' = errors
              /\ sem' = [sem EXCEPT !.pending = Tail(@), !.walked = Walked(stmt)]
  /\ UNCHANGED <<heap, parser, pc, lexer, token, lexed, fault, gen, drv>>

AnalyzeContinueStatement ==
  /\ AtStatement({"AST_CONTINUE_STATEMENT"})
  /\ LET stmt == Head(sem.pending).node
     IN  IF ~sem.in_loop
         THEN /\ errors' = report_semantic_error(errors, ERROR_SEM_CONTINUE_OUTSIDE_LOOP,
                                                 stmt.line, stmt.column)
              /\ sem' = [sem EXCEPT !.pending = Tail(@), !.success = FALSE,
                                    !.walked = Walked(stmt)]
         ELSE /\ errors' = errors
              /\ sem' = [sem EXCEPT !.pending = Tail(@), !.walked = Walked(stmt)]
  /\ UNCHANGED <<heap, parser, pc, lexer, token, lexed, fault, gen, drv>>

(***************************************************************************)
(* The trees the walk is run over: the programs  int main() { s1 .. sn }   *)
(* with every si one of these statements, over the names x and y.          *)
(***************************************************************************)
SemStatements ==
  { \* int x = 2;
    VariableDecl("x", IntegerConstant(2, 9), 1),
    \* int y = x;
    VariableDecl("y", VariableRef("x", 9), 1),
    \* x = y + 1;
    Assignment("x", BinaryOp("TOKEN_PLUS", VariableRef("y", 5),
                             IntegerConstant(1, 9), 7), 1),
    \* return x ? y : 0;
    ReturnStatement(TernaryExpression(VariableRef("x", 8), VariableRef("y", 12),
                                      IntegerConstant(0, 16), 10), 1),
    \* return -x;
    ReturnStatement(UnaryOp("TOKEN_MINUS", VariableRef("x", 9), 8), 1),
    \* { int x; x = 1; }
    CompoundStatement(<<VariableDecl("x", NULL_NODE, 3),
                        Assignment("x", IntegerConstant(1, 14), 10)>>, 1),
    \* { int y; int y = x; }
    CompoundStatement(<<VariableDecl("y", NULL_NODE, 3),
                        VariableDecl("y", VariableRef("x", 18), 10)>>, 1),
    \* while (x) { if (y) break; else continue; }
    WhileStatement(VariableRef("x", 8),
                   CompoundStatement(<<IfStatement(VariableRef("y", 17),
                                                   BreakStatement(20),
                                                   ContinueStatement(32), 13)>>, 11), 1),
    \* break;
    BreakStatement(1),
    \* continue;
    ContinueStatement(1),
    \* if (x) int y;
    IfStatement(VariableRef("x", 5), VariableDecl("y", NULL_NODE, 8), NULL_NODE, 1),
    \* if (x) int y; else int x;
    IfStatement(VariableRef("x", 5), VariableDecl("y", NULL_NODE, 8),
                VariableDecl("x", NULL_NODE, 20), 1),
    \* if (x) { int y; } else x = 1;
    IfStatement(VariableRef("x", 5),
                CompoundStatement(<<VariableDecl("y", NULL_NODE, 10)>>, 8),
                Assignment("x", IntegerConstant(1, 28), 24), 1),
    \* while (1) { while (0) continue; break; }
    WhileStatement(IntegerConstant(1, 8),
                   CompoundStatement(<<WhileStatement(IntegerConstant(0, 20),
                                                      ContinueStatement(23), 13),
                                       BreakStatement(33)>>, 11), 1),
    \* x + 1;
    BinaryOp("TOKEN_PLUS", VariableRef("x", 1), IntegerConstant(1, 5), 3) }

SemPrograms ==
  { ProgramOf(stmts) : stmts \in SeqsUpTo(SemStatements, MaxSemStmts) \ {<<>>} }

InitSem ==
  /\ pc = "semantic_analyze"
  /\ lexer = NoLexer
  /\ token = NoToken
  /\ lexed = [tokens |-> 0, skipped |-> 0]
  /\ errors = error_list_create
  /\ fault = FALSE
  /\ sem = NoWalk
  /\ gen = NoLowering
  /\ drv = NoDriver
  /\ parser = NoParser
  /\ heap = NoHeap

\* semantic_analyze up to the loop over the statements of the function.
SemanticAnalyze ==
  /\ pc = "semantic_analyze"
  /\ \E ast \in SemPrograms :
       IF ast.type # "AST_PROGRAM" \/ ast.function.type # "AST_FUNCTION"
       THEN /\ pc' = "semantic_done"
            /\ sem' = [ast |-> ast, current_scope |-> symbol_table_create(<<>>),
                       in_loop |-> FALSE, pending |-> <<>>, success |-> FALSE,
                       walked |-> <<>>]
       ELSE /\ pc' = "analyze_statement"
            /\ sem' = [ast |-> ast, current_scope |-> symbol_table_create(<<>>),
                       in_loop |-> FALSE,
                       pending |-> StatementCalls(ast.function.statements),
                       success |-> TRUE, walked |-> <<>>]
  /\ UNCHANGED <<heap, parser, lexer, token, lexed, errors, fault, gen, drv>>

\* return success
SemanticAnalyzeReturn ==
  /\ pc = "analyze_statement"
  /\ sem.pending = <<>>
  /\ pc' = "semantic_done"
  /\ UNCHANGED <<heap, parser, lexer, token, lexed, errors, fault, sem, gen, drv>>

NextSem ==
  \/ SemanticAnalyze
  \/ AnalyzeReturnStatement
  \/ AnalyzeVariableDecl
  \/ AnalyzeExpressionStatement
  \/ EnterCompoundStatement
  \/ LeaveCompoundStatement
  \/ AnalyzeIfStatement
  \/ EnterWhileStatement
  \/ LeaveWhileStatement
  \/ AnalyzeBreakStatement
  \/ AnalyzeContinueStatement
  \/ SemanticAnalyzeReturn

SpecSem == InitSem /\ [][NextSem]_vars

(***************************************************************************)
(* What the claims about the walk are measured against: the uses of names  *)
(* in a tree, in source order, and the scopes of C.                        *)
(***************************************************************************)
\* The VarRefs and Assignment targets of an expression, in source order.
RECURSIVE NameUses(_)
NameUses(e) ==
  CASE e.type = "AST_VARIABLE_REF" ->
         <<[name |-> e.name, line |-> e.line, column |-> e.column]>>
    [] e.type = "AST_UNARY_OP" -> NameUses(e.operand)
    [] e.type = "AST_BINARY_OP" -> NameUses(e.left) \o NameUses(e.right)
    [] e.type = "AST_ASSIGNMENT" ->
         <<[name |-> e.name, line |-> e.line, column |-> e.column]>> \o NameUses(e.value)
    [] e.type = "AST_TERNARY_EXPRESSION" ->
         NameUses(e.condition) \o NameUses(e.true_expression)
           \o NameUses(e.false_expression)
    [] OTHER -> <<>>

Visible(scopes, name) ==
  \E i \in 1 .. Len(scopes) : \E j \in 1 .. Len(scopes[i]) : scopes[i][j] = name

UndeclaredUses(e, scopes) ==
  LET Undeclared(u) == ~Visible(scopes, u.name)
  IN  SelectSeq(NameUses(e), Undeclared)

\* The undeclared uses of a statement (of a statement list) that starts in
\* the given scopes, and the scopes after it.
RECURSIVE UndeclaredInStatement(_, _)
RECURSIVE UndeclaredInStatements(_, _)
UndeclaredInStatement(s, scopes) ==
  CASE s.type = "NULL" -> [scopes |-> scopes, uses |-> <<>>]
    [] s.type = "AST_RETURN_STATEMENT" ->
         [scopes |-> scopes, uses |-> UndeclaredUses(s.expression, scopes)]
    [] s.type = "AST_VARIABLE_DECL" ->
         LET n == Len(scopes)
             declared == \E j \in 1 .. Len(scopes[n]) : scopes[n][j] = s.name
             after == IF declared THEN scopes
                      ELSE [scopes EXCEPT ![n] = Append(@, s.name)]
         IN  [scopes |-> after, uses |-> UndeclaredUses(s.initializer, after)]
    [] s.type = "AST_COMPOUND_STATEMENT" ->
         [scopes |-> scopes,
          uses |-> UndeclaredInStatements(s.statements, Append(scopes, <<>>)).uses]
    [] s.type = "AST_IF_STATEMENT" ->
         LET t == UndeclaredInStatement(s.then_statement, scopes)
             e == UndeclaredInStatement(s.else_statement, t.scopes)
         IN  [scopes |-> e.scopes,
              uses |-> UndeclaredUses(s.condition, scopes) \o t.uses \o e.uses]
    [] s.type = "AST_WHILE_STATEMENT" ->
         LET b == UndeclaredInStatement(s.body, scopes)
         IN  [scopes |-> b.scopes,
              uses |-> UndeclaredUses(s.condition, scopes) \o b.uses]
    [] s.type \in {"AST_BREAK_STATEMENT", "AST_CONTINUE_STATEMENT"} ->
         [scopes |-> scopes, uses |-> <<>>]
    [] OTHER -> [scopes |-> scopes, uses |-> UndeclaredUses(s, scopes)]

UndeclaredInStatements(stmts, scopes) ==
  IF stmts = <<>> THEN [scopes |-> scopes, uses |-> <<>>]
  ELSE LET h == UndeclaredInStatement(Head(stmts), scopes)
           t == UndeclaredInStatements(Tail(stmts), h.scopes)
       IN  [scopes |-> t.scopes, uses |-> h.uses \o t.uses]

\* The positions of the diagnostics with the given id, in recording order.
Recorded(id) ==
  LET Is(e) == e.id = id
      es == SelectSeq(errors.errors, Is)
  IN  [i \in 1 .. Len(es) |-> [line |-> es[i].line, column |-> es[i].column]]

\* The statement about to be analyzed, and the diagnostics its analysis adds.
NextStatement == Head(sem.pending).node

AddedErrorIds ==
  { errors'.errors[i].id : i \in errors.count + 1 .. errors'.count }

\* The walk is inside the body of a loop statement.
InLoopBody ==
  \E i \in 1 .. Len(sem.pending) : sem.pending[i].kind = "restore_loop"

(***************************************************************************)
(* C8.  When the walk ends, error 3001 has been recorded for every VarRef  *)
(* and every Assignment target of the tree whose name is not declared in   *)
(* the current or an enclosing scope at that point, at that node's         *)
(* position, and for nothing else.                                         *)
(***************************************************************************)
C8_EveryUndeclaredUseReported ==
  pc = "semantic_done" =>
    LET uses == UndeclaredInStatements(sem.ast.function.statements, <<<<>>>>).uses
    IN  Recorded(ERROR_SEM_UNDEFINED_VARIABLE)
          = [i \in 1 .. Len(uses) |-> [line |-> uses[i].line, column |-> uses[i].column]]

(***************************************************************************)
(* C9.  Analyzing a VarDecl records error 3004 exactly when its name is    *)
(* already declared in the innermost scope; otherwise (also when the name  *)
(* is declared in an enclosing scope) the name is added to the innermost   *)
(* scope and every other scope is left as it was.                          *)
(***************************************************************************)
C9_RedefinitionInInnermostScopeOnly ==
  [][ AtStatement({"AST_VARIABLE_DECL"}) =>
        LET name == NextStatement.name
            n == Len(sem.current_scope)
            innermost == sem.current_scope[n]
            declared == \E i \in 1 .. Len(innermost) : innermost[i] = name
        IN  /\ declared <=> ERROR_SEM_REDEFINITION \in AddedErrorIds
            /\ declared => sem'.current_scope = sem.current_scope
            /\ ~declared =>
                 /\ Len(sem'.current_scope) = n
                 /\ sem'.current_scope[n] = Append(innermost, name)
                 /\ \A i \in 1 .. n - 1 : sem'.current_scope[i] = sem.current_scope[i]
    ]_vars

\* A declaration that shadows a name of the enclosing scope has been accepted.
C9_Witness ==
  /\ pc = "analyze_statement"
  /\ Len(sem.current_scope) = 2
  /\ \E i \in 1 .. Len(sem.current_scope[1]) :
       \E j \in 1 .. Len(sem.current_scope[2]) :
         sem.current_scope[1][i] = sem.current_scope[2][j]
  /\ Recorded(ERROR_SEM_REDEFINITION) = <<>>

(***************************************************************************)
(* C10.  Analyzing a BreakStmt records error 3007, and a ContinueStmt      *)
(* error 3008, exactly when the statement is not inside the body of an     *)
(* enclosing loop: the in-loop flag is set exactly while a loop body is    *)
(* analyzed, and put back to its previous value when the body ends.        *)
(***************************************************************************)
C10_BreakContinueOnlyInLoop ==
  /\ [][ AtStatement({"AST_BREAK_STATEMENT"}) =>
           /\ ERROR_SEM_BREAK_OUTSIDE_LOOP \in AddedErrorIds <=> ~InLoopBody
           /\ AddedErrorIds \subseteq {ERROR_SEM_BREAK_OUTSIDE_LOOP} ]_vars
  /\ [][ AtStatement({"AST_CONTINUE_STATEMENT"}) =>
           /\ ERROR_SEM_CONTINUE_OUTSIDE_LOOP \in AddedErrorIds <=> ~InLoopBody
           /\ AddedErrorIds \subseteq {ERROR_SEM_CONTINUE_OUTSIDE_LOOP} ]_vars
  /\ [][ (pc = "analyze_statement" /\ sem.pending # <<>>
            /\ Head(sem.pending).kind = "restore_loop") =>
           sem'.in_loop = Head(sem.pending).previous_in_loop ]_vars
  /\ [](pc = "analyze_statement" => (sem.in_loop <=> InLoopBody))

\* A break inside a loop body was accepted and a later break, after the loop,
\* was rejected.
C10_Witness ==
  /\ pc = "semantic_done"
  /\ \E i \in 1 .. Len(sem.walked) : \E j \in i + 1 .. Len(sem.walked) :
       /\ sem.walked[i].type = "AST_BREAK_STATEMENT"
       /\ sem.walked[i].in_loop
       /\ sem.walked[i].depth >= 2
       /\ sem.walked[j].type = "AST_BREAK_STATEMENT"
       /\ ~sem.walked[j].in_loop
  /\ Len(Recorded(ERROR_SEM_BREAK_OUTSIDE_LOOP)) = 1

\* The declarations that are directly the then- or the else-branch of an if
\* statement of the tree, in the order the walk meets them.
RECURSIVE DependentDeclarations(_)
RECURSIVE DependentDeclarationsIn(_)
DependentDeclarations(s) ==
  LET At(d) == <<[line |-> d.line, column |-> d.column]>>
  IN  CASE s.type = "AST_IF_STATEMENT" ->
             (IF s.then_statement.type = "AST_VARIABLE_DECL"
              THEN At(s.then_statement) ELSE <<>>)
             \o (IF s.else_statement.type = "AST_VARIABLE_DECL"
                 THEN At(s.else_statement) ELSE <<>>)
             \o DependentDeclarations(s.then_statement)
             \o DependentDeclarations(s.else_statement)
        [] s.type = "AST_WHILE_STATEMENT" -> DependentDeclarations(s.body)
        [] s.type = "AST_COMPOUND_STATEMENT" -> DependentDeclarationsIn(s.statements)
        [] OTHER -> <<>>

DependentDeclarationsIn(stmts) ==
  IF stmts = <<>> THEN <<>>
  ELSE DependentDeclarations(Head(stmts)) \o DependentDeclarationsIn(Tail(stmts))

(***************************************************************************)
(* C11.  When the walk ends, error 3009 has been recorded once for each    *)
(* then- or else-branch of an if statement that is directly a declaration, *)
(* at the position of that declaration, and for nothing else: not for a    *)
(* declaration inside a compound statement used as the branch.             *)
(***************************************************************************)
C11_DependentDeclarationReported ==
  pc = "semantic_done" =>
    Recorded(ERROR_SEM_DEPENDENT_STATEMENT_ASSIGNMENT)
      = DependentDeclarationsIn(sem.ast.function.statements)

\* An if with a declaration as both branches and an if with a braced
\* declaration were walked: two diagnostics, both for the first.
C11_Witness ==
  /\ pc = "semantic_done"
  /\ Len(Recorded(ERROR_SEM_DEPENDENT_STATEMENT_ASSIGNMENT)) = 2
  /\ Recorded(ERROR_SEM_DEPENDENT_STATEMENT_ASSIGNMENT)[1].line
       = Recorded(ERROR_SEM_DEPENDENT_STATEMENT_ASSIGNMENT)[2].line
  /\ \E i \in 1 .. Len(sem.walked) :
       /\ sem.walked[i].type = "AST_VARIABLE_DECL"
       /\ sem.walked[i].depth = 2

(***************************************************************************)
(* IR lowering (src/src/ir.c).  A Region pointer is the region's id, which *)
(* is its place in the table of the regions created so far (ids are handed *)
(* out in creation order from 0); NULL_REGION is the NULL pointer and      *)
(* GARBAGE_REGION a pointer that addresses no region.                      *)
(*                                                                         *)
(* region_create leaves is_expression and the if_data pointers of the      *)
(* Region unset, and arena_alloc hands out malloc'ed memory without        *)
(* clearing it: their values are whatever the memory held.  ctx.junk is    *)
(* that content for the run: is_expression reads as TRUE or FALSE, and an  *)
(* unset region pointer as NULL or as garbage.                             *)
(***************************************************************************)
NULL_REGION == -1
GARBAGE_REGION == -2

JunkValues == [is_expression : BOOLEAN, region : {NULL_REGION, GARBAGE_REGION}]

\* The symbol table of ir.c has one scope: nothing but ir_generate creates one.
ir_symbol_table_create == <<>>

\* The index in the table of the first entry named name, 0 for NULL.
symbol_table_find(table, name) ==
  IF \E i \in 1 .. Len(table) : table[i].name = name
  THEN CHOOSE i \in 1 .. Len(table) :
         /\ table[i].name = name
         /\ \A j \in 1 .. i - 1 : table[j].name # name
  ELSE 0

ir_symbol_table_add(table, name, index) ==
  Append(table, [name |-> name, index |-> index])

region_create(type, id, parent, junk) ==
  [type |-> type, id |-> id, is_expression |-> junk.is_expression,
   instructions |-> <<>>, children |-> <<>>, parent |-> parent,
   then_region |-> junk.region, else_region |-> junk.region]

region_add_instruction(regions, region, inst) ==
  [regions EXCEPT ![region + 1].instructions = Append(@, inst)]

region_add_child(regions, parent, child) ==
  [regions EXCEPT ![parent + 1].children = Append(@, child),
                  ![child + 1].parent = parent]

\* An Instruction is its opcode and its first operand (a constant or a local
\* index; 0 when the instruction has none).
ir_emit_instruction(ctx, opcode, operand) ==
  [ctx EXCEPT !.regions = region_add_instruction(@, ctx.current_region,
                            [opcode |-> opcode, operand |-> operand])]

\* region_create(.., ctx->next_region_id++, parent) and region_add_child.
create_child_region(ctx, type, parent) ==
  [ctx EXCEPT
     !.regions = region_add_child(
                   Append(@, region_create(type, ctx.next_region_id, parent, ctx.junk)),
                   parent, ctx.next_region_id),
     !.next_region_id = @ + 1]

UnaryOpcode(operator) ==
  CASE operator = "TOKEN_MINUS" -> "IR_NEG"
    [] operator = "TOKEN_BANG" -> "IR_NOT"
    [] operator = "TOKEN_TILDE" -> "IR_BITWISE_NOT"
    [] OTHER -> NULL

BinaryOpcode(operator) ==
  CASE operator = "TOKEN_AMP_AMP" -> "IR_LOGICAL_AND"
    [] operator = "TOKEN_PIPE_PIPE" -> "IR_LOGICAL_OR"
    [] operator = "TOKEN_PLUS" -> "IR_ADD"
    [] operator = "TOKEN_MINUS" -> "IR_SUB"
    [] operator = "TOKEN_STAR" -> "IR_MUL"
    [] operator = "TOKEN_SLASH" -> "IR_DIV"
    [] operator = "TOKEN_PERCENT" -> "IR_MOD"
    [] operator = "TOKEN_EQ_EQ" -> "IR_EQ"
    [] operator = "TOKEN_BANG_EQ" -> "IR_NE"
    [] operator = "TOKEN_LT" -> "IR_LT"
    [] operator = "TOKEN_GT" -> "IR_GT"
    [] operator = "TOKEN_LT_EQ" -> "IR_LE"
    [] operator = "TOKEN_GT_EQ" -> "IR_GE"
    [] OTHER -> NULL

RECURSIVE ir_generate_expression(_, _)
ir_generate_expression(ctx, expr) ==
  CASE expr.type = "AST_INTEGER_CONSTANT" ->
         ir_emit_instruction(ctx, "IR_CONST_INT", expr.value)
    [] expr.type = "AST_VARIABLE_REF" ->
         LET var == symbol_table_find(ctx.current_scope, expr.name)
         IN  IF var # 0
             THEN ir_emit_instruction(ctx, "IR_LOAD_LOCAL", ctx.current_scope[var].index)
             ELSE ctx
    [] expr.type = "AST_UNARY_OP" ->
         LET c1 == ir_generate_expression(ctx, expr.operand)
             opcode == UnaryOpcode(expr.operator)
         IN  IF opcode = NULL THEN c1 ELSE ir_emit_instruction(c1, opcode, 0)
    [] expr.type = "AST_BINARY_OP" ->
         LET c1 == ir_generate_expression(ctx, expr.left)
             c2 == ir_generate_expression(c1, expr.right)
             opcode == BinaryOpcode(expr.operator)
         IN  IF opcode = NULL THEN c2 ELSE ir_emit_instruction(c2, opcode, 0)
    [] expr.type = "AST_ASSIGNMENT" ->
         LET c1 == ir_generate_expression(ctx, expr.value)
             var == symbol_table_find(c1.current_scope, expr.name)
         IN  IF var # 0
             THEN ir_emit_instruction(
                    ir_emit_instruction(c1, "IR_STORE_LOCAL", c1.current_scope[var].index),
                    "IR_LOAD_LOCAL", c1.current_scope[var].index)
             ELSE c1
    [] expr.type = "AST_TERNARY_EXPRESSION" ->
         LET if_region == ctx.next_region_id
             c1 == create_child_region(ctx, "REGION_IF", ctx.current_region)
             c2 == ir_generate_expression([c1 EXCEPT !.current_region = if_region],
                                          expr.condition)
             c3 == [c2 EXCEPT !.current_region = c2.regions[if_region + 1].parent]
             then_region == c3.next_region_id
             old_region == c3.current_region
             c4 == create_child_region(
                     [c3 EXCEPT !.regions[if_region + 1].then_region = then_region],
                     "REGION_BLOCK", if_region)
             c5 == ir_generate_expression([c4 EXCEPT !.current_region = then_region],
                                          expr.true_expression)
             else_region == c5.next_region_id
             c6 == create_child_region(
                     [c5 EXCEPT !.current_region = old_region,
                                !.regions[if_region + 1].else_region = else_region],
                     "REGION_BLOCK", if_region)
             c7 == ir_generate_expression([c6 EXCEPT !.current_region = else_region],
                                          expr.false_expression)
         IN  [c7 EXCEPT !.current_region = old_region]
    [] OTHER -> ctx

RECURSIVE ir_generate_statement(_, _)
ir_generate_statement(ctx, stmt) ==
  CASE stmt.type = "AST_RETURN_STATEMENT" ->
         ir_emit_instruction(ir_generate_expression(ctx, stmt.expression), "IR_RETURN", 0)
    [] stmt.type = "AST_VARIABLE_DECL" ->
         LET local_index == Len(ctx.locals)
             c1 == [ctx EXCEPT
                      !.locals = Append(@, [name |-> stmt.name, index |-> local_index]),
                      !.current_scope = ir_symbol_table_add(@, stmt.name, local_index)]
         IN  IF stmt.initializer.type # "NULL"
             THEN ir_emit_instruction(ir_generate_expression(c1, stmt.initializer),
                                      "IR_STORE_LOCAL", local_index)
             ELSE c1
    [] stmt.type = "AST_ASSIGNMENT" ->
         ir_emit_instruction(ir_generate_expression(ctx, stmt), "IR_POP", 0)
    [] stmt.type = "AST_BINARY_OP" ->
         ir_emit_instruction(ir_generate_expression(ctx, stmt), "IR_POP", 0)
    [] stmt.type = "AST_IF_STATEMENT" ->
         LET if_region == ctx.next_region_id
             c1 == create_child_region(ctx, "REGION_IF", ctx.current_region)
             c2 == ir_generate_expression([c1 EXCEPT !.current_region = if_region],
                                          stmt.condition)
             c3 == [c2 EXCEPT !.current_region = c2.regions[if_region + 1].parent]
             then_region == c3.next_region_id
             old_region == c3.current_region
             c4 == create_child_region(
                     [c3 EXCEPT !.regions[if_region + 1].then_region = then_region],
                     "REGION_BLOCK", if_region)
             c5 == [ir_generate_statement([c4 EXCEPT !.current_region = then_region],
                                          stmt.then_statement)
                      EXCEPT !.current_region = old_region]
         IN  IF stmt.else_statement.type # "NULL"
             THEN LET else_region == c5.next_region_id
                      c6 == create_child_region(
                              [c5 EXCEPT !.regions[if_region + 1].else_region = else_region],
                              "REGION_BLOCK", if_region)
                  IN  [ir_generate_statement([c6 EXCEPT !.current_region = else_region],
                                             stmt.else_statement)
                         EXCEPT !.current_region = old_region]
             ELSE c5
    [] OTHER -> ctx

RECURSIVE region_has_return(_, _)
region_has_return(regions, region) ==
  IF region = NULL_REGION THEN FALSE
  ELSE \/ \E i \in 1 .. Len(regions[region + 1].instructions) :
             regions[region + 1].instructions[i].opcode = "IR_RETURN"
       \/ \E i \in 1 .. Len(regions[region + 1].children) :
             region_has_return(regions, regions[region + 1].children[i])

\* The statements of a list, lowered in order.
RECURSIVE ir_generate_statements(_, _)
ir_generate_statements(ctx, stmts) ==
  IF stmts = <<>> \/ ctx.next_region_id < 0 THEN ctx
  ELSE ir_generate_statements(ir_generate_statement(ctx, Head(stmts)), Tail(stmts))

\* The IRContext ir_generate sets up: the function's body region, no locals.
ir_context(junk) ==
  [regions |-> <<region_create("REGION_FUNCTION", 0, NULL_REGION, junk)>>,
   current_region |-> 0, current_scope |-> ir_symbol_table_create,
   locals |-> <<>>, next_region_id |-> 1, junk |-> junk]

NULL_MODULE == [type |-> "NULL"]

\* A Function that declares no local, whatever the statements declared.
ir_function_without_locals(name, ctx) ==
  [name |-> name, return_type |-> "TYPE_I32", body |-> 0, regions |-> ctx.regions,
   locals |-> <<>>, local_count |-> 0]

\* The Function ir_generate builds from the context the statements leave:
\* a const 0 and a return are added to a body without a return.
ir_function(name, ctx) ==
  [name |-> name, return_type |-> "TYPE_I32", body |-> 0,
   regions |-> IF ~region_has_return(ctx.regions, 0)
               THEN region_add_instruction(
                      region_add_instruction(ctx.regions, 0,
                         [opcode |-> "IR_CONST_INT", operand |-> 0]),
                      0, [opcode |-> "IR_RETURN", operand |-> 0])
               ELSE ctx.regions,
   locals |-> ctx.locals,
   local_count |-> Len(ctx.locals)]

\* The module holds its one function: name, locals, body and the regions.
ir_generate(ast, junk) ==
  IF ast.type # "AST_PROGRAM" THEN NULL_MODULE
  ELSE [type |-> "IRModule", function_count |-> 1,
        functions |-> <<ir_function(ast.function.name,
                          ir_generate_statements(ir_context(junk),
                                                 ast.function.statements))>>]

(***************************************************************************)
(* WASM emission (src/src/codegen.c).  A Buffer is the sequence of the     *)
(* bytes written to it; the buffers grow through arena_alloc, which never  *)
(* fails.                                                                  *)
(***************************************************************************)
SECTION_TYPE == 1
SECTION_FUNCTION == 3
SECTION_EXPORT == 7
SECTION_CODE == 10
WASM_I32_TYPE == 127
WASM_VOID_TYPE == 64
WASM_LOCAL_GET == 32
WASM_LOCAL_SET == 33
WASM_DROP == 26
WASM_I32_CONST == 65
WASM_I32_EQZ == 69
WASM_I32_EQ == 70
WASM_I32_NE == 71
WASM_I32_LT_S == 72
WASM_I32_GT_S == 74
WASM_I32_LE_S == 76
WASM_I32_GE_S == 78
WASM_I32_ADD == 106
WASM_I32_SUB == 107
WASM_I32_MUL == 108
WASM_I32_DIV_S == 109
WASM_I32_REM_S == 111
WASM_I32_AND == 113
WASM_I32_OR == 114
WASM_I32_XOR == 115
WASM_RETURN == 15
WASM_END == 11
WASM_IF == 4
WASM_ELSE == 5
WASM_FUNC_TYPE == 96
EXPORT_FUNC == 0

\* WASM_MAGIC 0x6d736100 and WASM_VERSION 1 as buffer_write_u32 is given them.
WASM_MAGIC == 1836278016
WASM_VERSION == 1

\* The bytes of the string "main".
MainName == <<109, 97, 105, 110>>

buffer_write_byte(buf, byte) == Append(buf, byte % 256)

buffer_write_u32(buf, value) ==
  buf \o <<value % 256, (value \div 256) % 256, (value \div 65536) % 256,
           (value \div 16777216) % 256>>

\* value is a uint32_t, held as its 32 bits: a value from 2^31 on is the
\* negative integer with the same bits.  value >>= 7 shifts zeros in.
shift_right_u32(value) ==
  IF value < 0 THEN (value \div 128) + 33554432 ELSE value \div 128

RECURSIVE buffer_write_leb128_u32(_, _)
buffer_write_leb128_u32(buf, value) ==
  IF value < 0 \/ value >= 128
  THEN buffer_write_leb128_u32(buffer_write_byte(buf, (value % 128) + 128),
                               shift_right_u32(value))
  ELSE buffer_write_byte(buf, value % 128)

\* The signed writer that stops as soon as no bits are left, whatever the
\* sign bit of the byte it wrote.
RECURSIVE buffer_write_leb128_i32_no_sign_test(_, _)
buffer_write_leb128_i32_no_sign_test(buf, value) ==
  LET byte == value % 128
      rest == value \div 128
  IN  IF rest = 0 \/ rest = -1
      THEN buffer_write_byte(buf, byte)
      ELSE buffer_write_leb128_i32_no_sign_test(buffer_write_byte(buf, byte + 128), rest)

\* value is an int32_t; value >>= 7 keeps the sign, as \div does.
RECURSIVE buffer_write_leb128_i32(_, _)
buffer_write_leb128_i32(buf, value) ==
  LET byte == value % 128
      rest == value \div 128
  IN  IF (rest = 0 /\ byte < 64) \/ (rest = -1 /\ byte >= 64)
      THEN buffer_write_byte(buf, byte)
      ELSE buffer_write_leb128_i32(buffer_write_byte(buf, byte + 128), rest)

buffer_write_string(buf, str) ==
  buffer_write_leb128_u32(buf, Len(str)) \o str

emit_section_header_one_more(buf, section_type, content_size) ==
  buffer_write_leb128_u32(buffer_write_byte(buf, section_type), content_size + 1)

emit_section_header(buf, section_type, content_size) ==
  buffer_write_leb128_u32(buffer_write_byte(buf, section_type), content_size)

emit_type_section(buf) ==
  LET content == buffer_write_byte(
                   buffer_write_leb128_u32(
                     buffer_write_leb128_u32(
                       buffer_write_byte(
                         buffer_write_leb128_u32(<<>>, 1),
                         WASM_FUNC_TYPE),
                       0),
                     1),
                   WASM_I32_TYPE)
  IN  emit_section_header(buf, SECTION_TYPE, Len(content)) \o content

emit_function_section(buf) ==
  LET content == buffer_write_leb128_u32(buffer_write_leb128_u32(<<>>, 1), 0)
  IN  emit_section_header(buf, SECTION_FUNCTION, Len(content)) \o content

emit_export_section(buf) ==
  LET content == buffer_write_leb128_u32(
                   buffer_write_byte(
                     buffer_write_string(buffer_write_leb128_u32(<<>>, 1), MainName),
                     EXPORT_FUNC),
                   0)
  IN  emit_section_header(buf, SECTION_EXPORT, Len(content)) \o content

SimpleOpcode(opcode) ==
  CASE opcode = "IR_NOT" -> WASM_I32_EQZ
    [] opcode = "IR_ADD" -> WASM_I32_ADD
    [] opcode = "IR_SUB" -> WASM_I32_SUB
    [] opcode = "IR_MUL" -> WASM_I32_MUL
    [] opcode = "IR_DIV" -> WASM_I32_DIV_S
    [] opcode = "IR_MOD" -> WASM_I32_REM_S
    [] opcode = "IR_EQ" -> WASM_I32_EQ
    [] opcode = "IR_NE" -> WASM_I32_NE
    [] opcode = "IR_LT" -> WASM_I32_LT_S
    [] opcode = "IR_GT" -> WASM_I32_GT_S
    [] opcode = "IR_LE" -> WASM_I32_LE_S
    [] opcode = "IR_GE" -> WASM_I32_GE_S
    [] opcode = "IR_LOGICAL_AND" -> WASM_I32_AND
    [] opcode = "IR_LOGICAL_OR" -> WASM_I32_OR
    [] opcode = "IR_ELSE" -> WASM_ELSE
    [] opcode = "IR_END" -> WASM_END
    [] opcode = "IR_POP" -> WASM_DROP
    [] opcode = "IR_RETURN" -> WASM_RETURN
    [] OTHER -> -1

emit_instruction(buf, inst) ==
  CASE inst.opcode = "IR_CONST_INT" ->
         buffer_write_leb128_i32(buffer_write_byte(buf, WASM_I32_CONST), inst.operand)
    [] inst.opcode = "IR_LOAD_LOCAL" ->
         buffer_write_leb128_u32(buffer_write_byte(buf, WASM_LOCAL_GET), inst.operand)
    [] inst.opcode = "IR_STORE_LOCAL" ->
         buffer_write_leb128_u32(buffer_write_byte(buf, WASM_LOCAL_SET), inst.operand)
    [] inst.opcode = "IR_NEG" ->
         buffer_write_byte(
           buffer_write_leb128_i32(buffer_write_byte(buf, WASM_I32_CONST), -1),
           WASM_I32_MUL)
    [] inst.opcode = "IR_BITWISE_NOT" ->
         buffer_write_byte(
           buffer_write_leb128_i32(buffer_write_byte(buf, WASM_I32_CONST), -1),
           WASM_I32_XOR)
    [] OTHER ->
         IF SimpleOpcode(inst.opcode) >= 0
         THEN buffer_write_byte(buf, SimpleOpcode(inst.opcode))
         ELSE buf

RECURSIVE emit_instructions(_, _)
emit_instructions(buf, insts) ==
  IF insts = <<>> \/ Len(buf) < 0 THEN buf
  ELSE emit_instructions(emit_instruction(buf, Head(insts)), Tail(insts))

\* The result is the buffer and whether a garbage Region pointer was followed.
RECURSIVE emit_region(_, _, _)
RECURSIVE emit_regions(_, _, _)
emit_region(out, regions, region) ==
  IF region = NULL_REGION THEN out
  ELSE IF region = GARBAGE_REGION \/ out.fault THEN [out EXCEPT !.fault = TRUE]
  ELSE
    LET r == regions[region + 1]
    IN  IF r.type = "REGION_IF"
        THEN LET b1 == buffer_write_byte(emit_instructions(out.data, r.instructions),
                                         WASM_IF)
                 b2 == buffer_write_byte(b1, IF r.is_expression THEN WASM_I32_TYPE
                                             ELSE WASM_VOID_TYPE)
                 o3 == IF r.then_region # NULL_REGION
                       THEN emit_region([out EXCEPT !.data = b2], regions, r.then_region)
                       ELSE [out EXCEPT !.data = b2]
                 o4 == IF r.else_region # NULL_REGION
                       THEN emit_region(
                              [o3 EXCEPT !.data = buffer_write_byte(@, WASM_ELSE)],
                              regions, r.else_region)
                       ELSE o3
             IN  [o4 EXCEPT !.data = buffer_write_byte(@, WASM_END)]
        ELSE IF r.type = "REGION_FUNCTION"
        THEN LET o1 == emit_regions(out, regions, r.children)
             IN  [o1 EXCEPT !.data = emit_instructions(@, r.instructions)]
        ELSE emit_regions([out EXCEPT !.data = emit_instructions(@, r.instructions)],
                          regions, r.children)

emit_regions(out, regions, children) ==
  IF children = <<>> THEN out
  ELSE emit_regions(emit_region(out, regions, Head(children)), regions, Tail(children))

\* The body of function func: local declarations, code, default return, end.
emit_function_body(func) ==
  LET b1 == buffer_write_leb128_u32(<<>>, IF func.local_count > 0 THEN 1 ELSE 0)
      b2 == IF func.local_count > 0
            THEN buffer_write_byte(buffer_write_leb128_u32(b1, func.local_count),
                                   WASM_I32_TYPE)
            ELSE b1
      o3 == IF func.body # NULL_REGION
            THEN emit_region([data |-> b2, fault |-> FALSE], func.regions, func.body)
            ELSE [data |-> b2, fault |-> FALSE]
      b4 == IF func.return_type = "TYPE_I32"
            THEN buffer_write_byte(
                   buffer_write_leb128_i32(buffer_write_byte(o3.data, WASM_I32_CONST), 0),
                   WASM_RETURN)
            ELSE o3.data
  IN  [o3 EXCEPT !.data = buffer_write_byte(b4, WASM_END)]

\* The section written from its content: the function count, then the size
\* of the body and the body.
emit_code_content(out, function_count, func_body) ==
  [data |-> emit_section_header(out.data, SECTION_CODE,
              Len(buffer_write_leb128_u32(
                    buffer_write_leb128_u32(<<>>, function_count), Len(func_body.data)))
              + Len(func_body.data))
            \o buffer_write_leb128_u32(
                 buffer_write_leb128_u32(<<>>, function_count), Len(func_body.data))
            \o func_body.data,
   fault |-> out.fault \/ func_body.fault]

emit_code_section(out, ir_module) ==
  emit_code_content(out, ir_module.function_count,
                    emit_function_body(ir_module.functions[1]))

\* fopen, fwrite and fclose of the buffer, reached when the emission has not
\* faulted; opened is whether fopen returned a file.
write_file(out, opened) ==
  [written |-> ~out.fault /\ opened,
   data |-> IF out.fault \/ ~opened THEN <<>> ELSE out.data,
   fault |-> out.fault]

\* The result is the bytes written to the output file (written |-> FALSE
\* when no file is written) and whether the emission faulted.
codegen_emit_wasm(ir_module, opened) ==
  IF ir_module.type = "NULL" \/ ir_module.function_count = 0
  THEN [written |-> FALSE, data |-> <<>>, fault |-> FALSE]
  ELSE
    write_file(
      emit_code_section(
        [data |-> emit_export_section(emit_function_section(emit_type_section(
                    buffer_write_u32(buffer_write_u32(<<>>, WASM_MAGIC), WASM_VERSION)))),
         fault |-> FALSE],
        ir_module),
      opened)

(***************************************************************************)
(* The WASM runtime that loads the output file and calls the exported main *)
(* (new WebAssembly.Module, new WebAssembly.Instance, exports.main() in    *)
(* the test harness): decoding, validation and execution of the subset of  *)
(* WASM the emitter can produce.  All values are i32.                      *)
(***************************************************************************)
INT32_MAX == 2147483647
INT32_MIN == -INT32_MAX - 1

Abs(v) == IF v < 0 THEN -v ELSE v

\* The sum and the difference wrapped to 32 bits, two's complement.
Add32(a, b) ==
  IF a > 0 /\ b > 0 /\ a > INT32_MAX - b THEN (a + INT32_MIN) + (b + INT32_MIN)
  ELSE IF a < 0 /\ b < 0 /\ a < INT32_MIN - b THEN (a - INT32_MIN) + (b - INT32_MIN)
  ELSE a + b

Sub32(a, b) ==
  IF a >= 0 /\ b < 0 /\ a > INT32_MAX + b THEN (a + INT32_MIN) - (b - INT32_MIN)
  ELSE IF a < 0 /\ b > 0 /\ a < INT32_MIN + b THEN (a - INT32_MIN) - (b + INT32_MIN)
  ELSE a - b

\* The product wrapped to 32 bits: a * b = (2a) * (b div 2) + a * (b mod 2).
RECURSIVE Mul32(_, _)
Mul32(a, b) ==
  IF b = 0 THEN 0
  ELSE IF b = -1 THEN Sub32(0, a)
  ELSE LET rest == Mul32(Add32(a, a), b \div 2)
       IN  IF b % 2 = 1 THEN Add32(a, rest) ELSE rest

\* Division truncating toward zero; b is not 0 and the quotient fits.
TruncDiv(a, b) ==
  IF a = INT32_MIN /\ b = INT32_MIN THEN 1
  ELSE IF a = INT32_MIN
  THEN IF b > 0 THEN -(((-(a + b)) \div b) + 1) ELSE ((-(a - b)) \div (-b)) + 1
  ELSE IF b = INT32_MIN THEN 0
  ELSE IF (a >= 0) = (b > 0) THEN Abs(a) \div Abs(b) ELSE -(Abs(a) \div Abs(b))

TruncRem(a, b) ==
  IF b = -1 \/ b = 1 THEN 0 ELSE a - b * TruncDiv(a, b)

\* Bit by bit over the n low bits of the two's complement of a and b; f is
\* the truth table of the operation, indexed by the two bits.  The last bit
\* is the sign.
RECURSIVE Bits(_, _, _, _)
Bits(f, a, b, n) ==
  IF n = 1 THEN -f[a % 2][b % 2]
  ELSE f[a % 2][b % 2] + 2 * Bits(f, a \div 2, b \div 2, n - 1)

AndTable == [x \in {0, 1} |-> [y \in {0, 1} |-> IF x = 1 /\ y = 1 THEN 1 ELSE 0]]
OrTable == [x \in {0, 1} |-> [y \in {0, 1} |-> IF x = 1 \/ y = 1 THEN 1 ELSE 0]]
XorTable == [x \in {0, 1} |-> [y \in {0, 1} |-> IF x # y THEN 1 ELSE 0]]

Bitwise32(f, a, b) == Bits(f, a, b, 32)

\* LEB128 decoding at position i: the value and the position after it.
RECURSIVE ReadU32(_, _)
ReadU32(bytes, i) ==
  IF i > Len(bytes) THEN [value |-> 0, next |-> i, ok |-> FALSE]
  ELSE IF bytes[i] >= 128
       THEN LET r == ReadU32(bytes, i + 1)
            IN  [value |-> (bytes[i] - 128) + 128 * r.value, next |-> r.next,
                 ok |-> r.ok /\ r.next - i <= 5]
       ELSE [value |-> bytes[i], next |-> i + 1, ok |-> TRUE]

RECURSIVE ReadS32(_, _)
ReadS32(bytes, i) ==
  IF i > Len(bytes) THEN [value |-> 0, next |-> i, ok |-> FALSE]
  ELSE IF bytes[i] >= 128
       THEN LET r == ReadS32(bytes, i + 1)
            IN  [value |-> (bytes[i] - 128) + 128 * r.value, next |-> r.next,
                 ok |-> r.ok /\ r.next - i <= 5]
       ELSE [value |-> IF bytes[i] >= 64 THEN bytes[i] - 128 ELSE bytes[i],
             next |-> i + 1, ok |-> TRUE]

UnaryOps == {WASM_I32_EQZ}
BinaryOps == {WASM_I32_EQ, WASM_I32_NE, WASM_I32_LT_S, WASM_I32_GT_S, WASM_I32_LE_S,
              WASM_I32_GE_S, WASM_I32_ADD, WASM_I32_SUB, WASM_I32_MUL, WASM_I32_DIV_S,
              WASM_I32_REM_S, WASM_I32_AND, WASM_I32_OR, WASM_I32_XOR}

\* ReadInstr is the instruction at position i, the position after it, and
\* whether it is an instruction ("more"), the else or end that closes a
\* sequence, the end of the bytes ("eof"), or no instruction ("bad").  An if
\* holds its two bodies.  ReadInstrs is the instructions from position i up
\* to the else or end that closes them, after the instructions acc.
RECURSIVE ReadInstr(_, _)
RECURSIVE ReadInstrs(_, _, _)
ReadInstr(bytes, i) ==
  LET Stop(how, next) == [inst |-> [op |-> 0, arg |-> 0], next |-> next, stop |-> how]
      More(inst, next) == [inst |-> inst, next |-> next, stop |-> "more"]
  IN  IF i > Len(bytes) THEN Stop("eof", i)
      ELSE LET op == bytes[i]
           IN  CASE op = WASM_END -> Stop("end", i + 1)
                 [] op = WASM_ELSE -> Stop("else", i + 1)
                 [] op = WASM_IF ->
                      IF i + 1 > Len(bytes) THEN Stop("bad", i)
                      ELSE LET t == ReadInstrs(bytes, i + 2, <<>>)
                               e == IF t.stop = "else" THEN ReadInstrs(bytes, t.next, <<>>)
                                    ELSE [t EXCEPT !.instrs = <<>>]
                           IN  IF e.stop # "end" THEN Stop("bad", i)
                               ELSE More([op |-> op, arg |-> bytes[i + 1],
                                          then |-> t.instrs, has_else |-> t.stop = "else",
                                          else |-> e.instrs], e.next)
                 [] op = WASM_I32_CONST ->
                      LET v == ReadS32(bytes, i + 1)
                      IN  IF ~v.ok THEN Stop("bad", i)
                          ELSE More([op |-> op, arg |-> v.value], v.next)
                 [] op \in {WASM_LOCAL_GET, WASM_LOCAL_SET} ->
                      LET v == ReadU32(bytes, i + 1)
                      IN  IF ~v.ok THEN Stop("bad", i)
                          ELSE More([op |-> op, arg |-> v.value], v.next)
                 [] op \in UnaryOps \cup BinaryOps \cup {WASM_DROP, WASM_RETURN} ->
                      More([op |-> op, arg |-> 0], i + 1)
                 [] OTHER -> Stop("bad", i)

ReadInstrs(bytes, i, acc) ==
  LET r == ReadInstr(bytes, i)
  IN  IF r.stop # "more" \/ Len(acc) < 0
      THEN [instrs |-> acc, next |-> r.next, stop |-> r.stop]
      ELSE ReadInstrs(bytes, r.next, Append(acc, r.inst))

\* Validation of an instruction sequence.  st is the height of the operand
\* stack above the start of the enclosing block, whether the code is
\* unreachable (after a return the stack is polymorphic), and whether the
\* code has been valid so far.
Pop(st, n) ==
  IF st.height >= n THEN [st EXCEPT !.height = @ - n]
  ELSE IF st.unreachable THEN [st EXCEPT !.height = 0]
  ELSE [st EXCEPT !.ok = FALSE]

Push(st, n) == [st EXCEPT !.height = @ + n]

EndsWith(st, arity) ==
  /\ st.ok
  /\ IF st.unreachable THEN st.height <= arity ELSE st.height = arity

BlockStart == [height |-> 0, unreachable |-> FALSE, ok |-> TRUE]

RECURSIVE Validate(_, _, _)
Validate(instrs, st, local_count) ==
  IF instrs = <<>> \/ ~st.ok THEN st
  ELSE
    LET inst == Head(instrs)
        op == inst.op
        after ==
          CASE op = WASM_I32_CONST -> Push(st, 1)
            [] op = WASM_LOCAL_GET ->
                 IF inst.arg < local_count THEN Push(st, 1) ELSE [st EXCEPT !.ok = FALSE]
            [] op = WASM_LOCAL_SET ->
                 IF inst.arg < local_count THEN Pop(st, 1) ELSE [st EXCEPT !.ok = FALSE]
            [] op \in UnaryOps -> Push(Pop(st, 1), 1)
            [] op \in BinaryOps -> Push(Pop(st, 2), 1)
            [] op = WASM_DROP -> Pop(st, 1)
            [] op = WASM_RETURN ->
                 [Pop(st, 1) EXCEPT !.height = 0, !.unreachable = TRUE]
            [] op = WASM_IF ->
                 LET arity == IF inst.arg = WASM_I32_TYPE THEN 1 ELSE 0
                     c == Pop(st, 1)
                     t == Validate(inst.then, BlockStart, local_count)
                     e == Validate(inst.else, BlockStart, local_count)
                 IN  IF /\ inst.arg \in {WASM_I32_TYPE, WASM_VOID_TYPE}
                        /\ EndsWith(t, arity)
                        /\ EndsWith(e, arity)
                        /\ (inst.has_else \/ arity = 0)
                     THEN Push(c, arity)
                     ELSE [st EXCEPT !.ok = FALSE]
            [] OTHER -> [st EXCEPT !.ok = FALSE]
    IN  Validate(Tail(instrs), after, local_count)

\* Execution.  m is the operand stack (top last), the locals, and the status:
\* "run", "return" (with the result in value) or "trap".
Top(m, k) == m.stack[Len(m.stack) - k]

Replace(m, n, v) ==
  [m EXCEPT !.stack = Append(SubSeq(@, 1, Len(@) - n), v)]

Bool(b) == IF b THEN 1 ELSE 0

ExecBinary(m, op) ==
  LET a == Top(m, 1)
      b == Top(m, 0)
  IN  CASE op = WASM_I32_ADD -> Replace(m, 2, Add32(a, b))
        [] op = WASM_I32_SUB -> Replace(m, 2, Sub32(a, b))
        [] op = WASM_I32_MUL -> Replace(m, 2, Mul32(a, b))
        [] op = WASM_I32_DIV_S ->
             IF b = 0 \/ (a = INT32_MIN /\ b = -1) THEN [m EXCEPT !.status = "trap"]
             ELSE Replace(m, 2, TruncDiv(a, b))
        [] op = WASM_I32_REM_S ->
             IF b = 0 THEN [m EXCEPT !.status = "trap"]
             ELSE Replace(m, 2, TruncRem(a, b))
        [] op = WASM_I32_EQ -> Replace(m, 2, Bool(a = b))
        [] op = WASM_I32_NE -> Replace(m, 2, Bool(a # b))
        [] op = WASM_I32_LT_S -> Replace(m, 2, Bool(a < b))
        [] op = WASM_I32_GT_S -> Replace(m, 2, Bool(a > b))
        [] op = WASM_I32_LE_S -> Replace(m, 2, Bool(a <= b))
        [] op = WASM_I32_GE_S -> Replace(m, 2, Bool(a >= b))
        [] op = WASM_I32_AND -> Replace(m, 2, Bitwise32(AndTable, a, b))
        [] op = WASM_I32_OR -> Replace(m, 2, Bitwise32(OrTable, a, b))
        [] op = WASM_I32_XOR -> Replace(m, 2, Bitwise32(XorTable, a, b))

RECURSIVE Execute(_, _)
Execute(instrs, m) ==
  IF instrs = <<>> \/ m.status # "run" THEN m
  ELSE
    LET inst == Head(instrs)
        op == inst.op
        after ==
          CASE op = WASM_I32_CONST -> Replace(m, 0, inst.arg)
            [] op = WASM_LOCAL_GET -> Replace(m, 0, m.locals[inst.arg + 1])
            [] op = WASM_LOCAL_SET ->
                 [m EXCEPT !.locals[inst.arg + 1] = Top(m, 0),
                           !.stack = SubSeq(@, 1, Len(@) - 1)]
            [] op = WASM_I32_EQZ -> Replace(m, 1, Bool(Top(m, 0) = 0))
            [] op \in BinaryOps -> ExecBinary(m, op)
            [] op = WASM_DROP -> [m EXCEPT !.stack = SubSeq(@, 1, Len(@) - 1)]
            [] op = WASM_RETURN -> [m EXCEPT !.status = "return", !.value = Top(m, 0)]
            [] op = WASM_IF ->
                 LET c == Top(m, 0)
                     m1 == [m EXCEPT !.stack = SubSeq(@, 1, Len(@) - 1)]
                 IN  Execute(IF c # 0 THEN inst.then ELSE inst.else, m1)
    IN  Execute(Tail(instrs), after)

\* The sections of a module from position i on: id, first payload position
\* and payload size of each, and whether its payload lies within the file.
RECURSIVE ReadSections(_, _)
ReadSections(bytes, i) ==
  IF i > Len(bytes) THEN <<>>
  ELSE LET size == ReadU32(bytes, i + 1)
           ok == size.ok /\ size.next + size.value - 1 <= Len(bytes)
           section == [id |-> bytes[i], start |-> size.next, size |-> size.value,
                       ok |-> ok]
       IN  IF ok THEN <<section>> \o ReadSections(bytes, size.next + size.value)
           ELSE <<section>>

WasmHeader == <<0, 97, 115, 109, 1, 0, 0, 0>>

Payload(bytes, section) ==
  SubSeq(bytes, section.start, section.start + section.size - 1)

\* The one function body of a code section: where it starts, the size
\* written in front of it, and whether it ends where the section ends.
ReadCode(bytes, section) ==
  LET count == ReadU32(bytes, section.start)
      size == ReadU32(bytes, count.next)
  IN  [ok |-> /\ count.ok /\ count.value = 1 /\ size.ok
              /\ size.next + size.value = section.start + section.size,
       start |-> size.next, size |-> size.value]

\* The locals and the instructions of a function body.
ReadBody(bytes, start, size) ==
  LET body == SubSeq(bytes, start, start + size - 1)
      groups == ReadU32(body, 1)
      count == ReadU32(body, groups.next)
      one == groups.ok /\ groups.value = 1 /\ count.ok /\ count.next <= Len(body)
               /\ body[count.next] = WASM_I32_TYPE
      none == groups.ok /\ groups.value = 0
      code == ReadInstrs(body, IF one THEN count.next + 1 ELSE groups.next, <<>>)
  IN  [ok |-> (one \/ none) /\ code.stop = "end" /\ code.next = Len(body) + 1,
       local_count |-> IF one THEN count.value ELSE 0,
       instrs |-> code.instrs]

\* What the runtime does with the file: "invalid" when the module is
\* rejected, "trap" when main traps, else "value" and the value main returns.
RunModule(bytes) ==
  LET sections == ReadSections(bytes, Len(WasmHeader) + 1)
      framed == /\ Len(bytes) >= Len(WasmHeader)
                /\ SubSeq(bytes, 1, Len(WasmHeader)) = WasmHeader
                /\ [i \in 1 .. Len(sections) |-> sections[i].id]
                     = <<SECTION_TYPE, SECTION_FUNCTION, SECTION_EXPORT, SECTION_CODE>>
                /\ \A i \in 1 .. Len(sections) : sections[i].ok
      declared == /\ Payload(bytes, sections[1]) = <<1, WASM_FUNC_TYPE, 0, 1, WASM_I32_TYPE>>
                  /\ Payload(bytes, sections[2]) = <<1, 0>>
                  /\ Payload(bytes, sections[3])
                       = <<1, Len(MainName)>> \o MainName \o <<EXPORT_FUNC, 0>>
      code == ReadCode(bytes, sections[4])
      body == ReadBody(bytes, code.start, code.size)
      valid == /\ framed /\ declared /\ code.ok /\ body.ok
               /\ EndsWith(Validate(body.instrs, BlockStart, body.local_count), 1)
      m == Execute(body.instrs,
                   [stack |-> <<>>, locals |-> [i \in 1 .. body.local_count |-> 0],
                    status |-> "run", value |-> 0])
  IN  IF ~valid THEN [status |-> "invalid", value |-> 0]
      ELSE IF m.status = "trap" THEN [status |-> "trap", value |-> 0]
      ELSE IF m.status = "return" THEN [status |-> "value", value |-> m.value]
      ELSE [status |-> "value", value |-> Top(m, 0)]

(***************************************************************************)
(* The value of a program under C semantics, which the claims about the    *)
(* emitted code are measured against.  env is the stack of the scopes, the *)
(* innermost last, each a sequence of [name, value, set]; a program whose  *)
(* behaviour C leaves undefined, or that C rejects, has no value.          *)
(***************************************************************************)
\* Whether the result of the operation on a and b is outside int (undefined
\* in C).
Overflows(op, a, b) ==
  CASE op = "TOKEN_PLUS" -> Add32(a, b) # a + b
    [] op = "TOKEN_MINUS" -> Sub32(a, b) # a - b
    [] op = "TOKEN_STAR" ->
         /\ a # 0 /\ b # 0
         /\ IF a = INT32_MIN THEN b # 1
            ELSE IF b = INT32_MIN THEN a # 1
            ELSE /\ Abs(a) > INT32_MAX \div Abs(b)
                 /\ ~ /\ (a < 0) # (b < 0)
                      /\ INT32_MAX % Abs(b) = Abs(b) - 1
                      /\ Abs(a) = (INT32_MAX \div Abs(b)) + 1
    [] op \in {"TOKEN_SLASH", "TOKEN_PERCENT"} -> a = INT32_MIN /\ b = -1
    [] OTHER -> FALSE

\* The scope (0 for none) and the place in it of the innermost binding of name.
RECURSIVE Binding(_, _, _)
Binding(env, name, depth) ==
  IF depth = 0 THEN [scope |-> 0, at |-> 0]
  ELSE IF \E i \in 1 .. Len(env[depth]) : env[depth][i].name = name
       THEN [scope |-> depth,
             at |-> CHOOSE i \in 1 .. Len(env[depth]) : env[depth][i].name = name]
       ELSE Binding(env, name, depth - 1)

Undefined(env) == [env |-> env, value |-> 0, ok |-> FALSE]

RECURSIVE CExpr(_, _)
CExpr(e, env) ==
  CASE e.type = "AST_INTEGER_CONSTANT" -> [env |-> env, value |-> e.value, ok |-> TRUE]
    [] e.type = "AST_VARIABLE_REF" ->
         LET b == Binding(env, e.name, Len(env))
         IN  IF b.scope = 0 THEN Undefined(env)
             ELSE [env |-> env, value |-> env[b.scope][b.at].value,
                   ok |-> env[b.scope][b.at].set]
    [] e.type = "AST_UNARY_OP" ->
         LET a == CExpr(e.operand, env)
             over == e.operator = "TOKEN_MINUS" /\ a.value = INT32_MIN
             v == CASE e.operator = "TOKEN_MINUS" -> -a.value
                    [] e.operator = "TOKEN_BANG" -> Bool(a.value = 0)
                    [] e.operator = "TOKEN_TILDE" -> (-1) - a.value
         IN  IF over THEN Undefined(a.env) ELSE [a EXCEPT !.value = v]
    [] e.type = "AST_BINARY_OP" /\ e.operator = "TOKEN_AMP_AMP" ->
         LET a == CExpr(e.left, env)
             b == CExpr(e.right, a.env)
         IN  IF ~a.ok \/ a.value = 0 THEN [a EXCEPT !.value = 0]
             ELSE [b EXCEPT !.value = Bool(b.value # 0)]
    [] e.type = "AST_BINARY_OP" /\ e.operator = "TOKEN_PIPE_PIPE" ->
         LET a == CExpr(e.left, env)
             b == CExpr(e.right, a.env)
         IN  IF ~a.ok THEN a
             ELSE IF a.value # 0 THEN [a EXCEPT !.value = 1]
             ELSE [b EXCEPT !.value = Bool(b.value # 0)]
    [] e.type = "AST_BINARY_OP" /\ e.operator \notin {"TOKEN_AMP_AMP", "TOKEN_PIPE_PIPE"} ->
         LET a == CExpr(e.left, env)
             b == CExpr(e.right, a.env)
             op == e.operator
             zero == op \in {"TOKEN_SLASH", "TOKEN_PERCENT"} /\ b.value = 0
             over == Overflows(op, a.value, b.value)
             v == CASE op = "TOKEN_PLUS" -> a.value + b.value
                    [] op = "TOKEN_MINUS" -> a.value - b.value
                    [] op = "TOKEN_STAR" -> a.value * b.value
                    [] op = "TOKEN_SLASH" -> IF zero THEN 0 ELSE TruncDiv(a.value, b.value)
                    [] op = "TOKEN_PERCENT" -> IF zero THEN 0 ELSE TruncRem(a.value, b.value)
                    [] op = "TOKEN_EQ_EQ" -> Bool(a.value = b.value)
                    [] op = "TOKEN_BANG_EQ" -> Bool(a.value # b.value)
                    [] op = "TOKEN_LT" -> Bool(a.value < b.value)
                    [] op = "TOKEN_GT" -> Bool(a.value > b.value)
                    [] op = "TOKEN_LT_EQ" -> Bool(a.value <= b.value)
                    [] op = "TOKEN_GT_EQ" -> Bool(a.value >= b.value)
         IN  IF ~a.ok \/ ~b.ok \/ zero \/ over THEN Undefined(b.env)
             ELSE [env |-> b.env, value |-> v, ok |-> TRUE]
    [] e.type = "AST_ASSIGNMENT" ->
         LET a == CExpr(e.value, env)
             b == Binding(a.env, e.name, Len(a.env))
         IN  IF b.scope = 0 \/ ~a.ok THEN Undefined(a.env)
             ELSE [a EXCEPT !.env[b.scope][b.at] =
                              [name |-> e.name, value |-> a.value, set |-> TRUE]]
    [] e.type = "AST_TERNARY_EXPRESSION" ->
         LET c == CExpr(e.condition, env)
         IN  IF ~c.ok THEN c
             ELSE IF c.value # 0 THEN CExpr(e.true_expression, c.env)
             ELSE CExpr(e.false_expression, c.env)
    [] OTHER -> Undefined(env)

\* A statement run from st: the scopes, the status ("run", "return" with the
\* value, "break", "continue", or "undefined") after it.  A loop is run for
\* at most fuel iterations.
NoValue(st) == [st EXCEPT !.status = "undefined"]

RECURSIVE CStmt(_, _, _)
RECURSIVE CStmts(_, _, _)
RECURSIVE CWhile(_, _, _)
CStmt(s, st, fuel) ==
  IF st.status # "run" THEN st
  ELSE
    CASE s.type = "NULL" -> st
      [] s.type = "AST_RETURN_STATEMENT" ->
           LET a == CExpr(s.expression, st.env)
           IN  IF a.ok THEN [env |-> a.env, status |-> "return", value |-> a.value]
               ELSE NoValue(st)
      [] s.type = "AST_VARIABLE_DECL" ->
           LET n == Len(st.env)
               redeclared == \E i \in 1 .. Len(st.env[n]) : st.env[n][i].name = s.name
               declared == [st.env EXCEPT ![n] =
                              Append(@, [name |-> s.name, value |-> 0, set |-> FALSE])]
               a == CExpr(s.initializer, declared)
           IN  IF redeclared THEN NoValue(st)
               ELSE IF s.initializer.type = "NULL" THEN [st EXCEPT !.env = declared]
               ELSE IF ~a.ok THEN NoValue(st)
               ELSE [st EXCEPT !.env =
                       [a.env EXCEPT ![n][Len(a.env[n])] =
                          [name |-> s.name, value |-> a.value, set |-> TRUE]]]
      [] s.type = "AST_COMPOUND_STATEMENT" ->
           LET r == CStmts(s.statements, [st EXCEPT !.env = Append(@, <<>>)], fuel)
           IN  [r EXCEPT !.env = SubSeq(@, 1, Len(@) - 1)]
      [] s.type = "AST_IF_STATEMENT" ->
           LET c == CExpr(s.condition, st.env)
           IN  IF \/ ~c.ok
                  \/ s.then_statement.type = "AST_VARIABLE_DECL"
                  \/ s.else_statement.type = "AST_VARIABLE_DECL"
               THEN NoValue(st)
               ELSE CStmt(IF c.value # 0 THEN s.then_statement ELSE s.else_statement,
                          [st EXCEPT !.env = c.env], fuel)
      [] s.type = "AST_WHILE_STATEMENT" -> CWhile(s, st, fuel)
      [] s.type = "AST_BREAK_STATEMENT" -> [st EXCEPT !.status = "break"]
      [] s.type = "AST_CONTINUE_STATEMENT" -> [st EXCEPT !.status = "continue"]
      [] OTHER ->
           LET a == CExpr(s, st.env)
           IN  IF a.ok THEN [st EXCEPT !.env = a.env] ELSE NoValue(st)

CStmts(stmts, st, fuel) ==
  IF stmts = <<>> THEN st
  ELSE CStmts(Tail(stmts), CStmt(Head(stmts), st, fuel), fuel)

CWhile(s, st, fuel) ==
  IF fuel = 0 \/ s.body.type = "AST_VARIABLE_DECL" THEN NoValue(st)
  ELSE LET c == CExpr(s.condition, st.env)
           b == CStmt(s.body, [st EXCEPT !.env = c.env], fuel)
       IN  IF ~c.ok THEN NoValue(st)
           ELSE IF c.value = 0 THEN [st EXCEPT !.env = c.env]
           ELSE IF b.status \in {"run", "continue"}
                THEN CWhile(s, [b EXCEPT !.status = "run"], fuel - 1)
           ELSE IF b.status = "break" THEN [b EXCEPT !.status = "run"]
           ELSE b

\* The value main returns: that of its return statement, or 0 when the end
\* of main is reached.
CMain(ast) ==
  LET r == CStmts(ast.function.statements,
                  [env |-> <<<<>>>>, status |-> "run", value |-> 0], MaxLoopIterations)
  IN  [defined |-> r.status \in {"run", "return"},
       value |-> IF r.status = "return" THEN r.value ELSE 0]

(***************************************************************************)
(* The driver (src/src/main.c).  The parser's work is taken by its result: *)
(* the tree it returns and the diagnostics that it and the lexer record.   *)
(***************************************************************************)
ERROR_SYNTAX_MISSING_SEMICOLON == 2003
ERROR_SYNTAX_MISSING_BRACE == 2004
ERROR_SYNTAX_EXPECTED_EXPRESSION == 2009

K(v) == IntegerConstant(v, 1)
X == VariableRef("x", 1)
Y == VariableRef("y", 1)
Op(op, l, r) == BinaryOp(op, l, r, 1)

\* x = x + 1;  written n times
RECURSIVE Increments(_)
Increments(n) ==
  IF n = 0 THEN <<>>
  ELSE <<Assignment("x", Op("TOKEN_PLUS", X, K(1)), 1)>> \o Increments(n - 1)

\* Programs that C accepts and gives a value.
\* return a && b;  return a || b;  and programs that tell whether the right
\* operand was evaluated:  int x = 0; a && (x = 5); return x;
LogicalSources ==
  { <<ReturnStatement(Op(op, K(a), K(b)), 1)>> :
      op \in {"TOKEN_AMP_AMP", "TOKEN_PIPE_PIPE"}, a \in {0, 1, 2}, b \in {0, 1, 2} }
  \cup
  { <<VariableDecl("x", K(0), 1), Op(op, K(a), Assignment("x", K(5), 1)),
      ReturnStatement(X, 1)>> :
      op \in {"TOKEN_AMP_AMP", "TOKEN_PIPE_PIPE"}, a \in {0, 1} }

ValidSources ==
  { \* return 42;
    <<ReturnStatement(K(42), 1)>>,
    \* return 100;
    <<ReturnStatement(K(100), 1)>>,
    \* return 1 && 2;
    <<ReturnStatement(Op("TOKEN_AMP_AMP", K(1), K(2)), 1)>>,
    \* return 2 || 0;
    <<ReturnStatement(Op("TOKEN_PIPE_PIPE", K(2), K(0)), 1)>>,
    \* int x = 5; return -x + 3 * 2;
    <<VariableDecl("x", K(5), 1),
      ReturnStatement(Op("TOKEN_PLUS", UnaryOp("TOKEN_MINUS", X, 1),
                         Op("TOKEN_STAR", K(3), K(2))), 1)>>,
    \* int x = 0; if (1) x = 7; else x = 9; return x;
    <<VariableDecl("x", K(0), 1),
      IfStatement(K(1), Assignment("x", K(7), 1), Assignment("x", K(9), 1), 1),
      ReturnStatement(X, 1)>>,
    \* int x = 1; if (x) return 5; return 6;
    <<VariableDecl("x", K(1), 1),
      IfStatement(X, ReturnStatement(K(5), 1), NULL_NODE, 1),
      ReturnStatement(K(6), 1)>>,
    \* return 1 ? 2 : 3;
    <<ReturnStatement(TernaryExpression(K(1), K(2), K(3), 1), 1)>>,
    \* return 2 - (1 ? 4 : 5);
    <<ReturnStatement(Op("TOKEN_MINUS", K(2), TernaryExpression(K(1), K(4), K(5), 1)), 1)>>,
    \* int x = 0; while (x < 3) x = x + 1; return x;
    <<VariableDecl("x", K(0), 1),
      WhileStatement(Op("TOKEN_LT", X, K(3)),
                     Assignment("x", Op("TOKEN_PLUS", X, K(1)), 1), 1),
      ReturnStatement(X, 1)>>,
    \* int x = 1; { x = 2; } return x;
    <<VariableDecl("x", K(1), 1),
      CompoundStatement(<<Assignment("x", K(2), 1)>>, 1),
      ReturnStatement(X, 1)>>,
    \* int x = 3;
    <<VariableDecl("x", K(3), 1)>>,
    \* return ~5 + !0;
    <<ReturnStatement(Op("TOKEN_PLUS", UnaryOp("TOKEN_TILDE", K(5), 1),
                         UnaryOp("TOKEN_BANG", K(0), 1)), 1)>>,
    \* int x; x = 7; return x / 2 % 3;
    <<VariableDecl("x", NULL_NODE, 1), Assignment("x", K(7), 1),
      ReturnStatement(Op("TOKEN_PERCENT", Op("TOKEN_SLASH", X, K(2)), K(3)), 1)>>,
    \* int x = 4; int y = x * x; x + 1;
    \* return (y >= 16) + (x != 4) + (x < y) + (y <= x) + (x == 4) + (x > 1);
    <<VariableDecl("x", K(4), 1), VariableDecl("y", Op("TOKEN_STAR", X, X), 1),
      Op("TOKEN_PLUS", X, K(1)),
      ReturnStatement(
        Op("TOKEN_PLUS",
           Op("TOKEN_PLUS",
              Op("TOKEN_PLUS",
                 Op("TOKEN_PLUS",
                    Op("TOKEN_PLUS", Op("TOKEN_GT_EQ", Y, K(16)),
                                     Op("TOKEN_BANG_EQ", X, K(4))),
                    Op("TOKEN_LT", X, Y)),
                 Op("TOKEN_LT_EQ", Y, X)),
              Op("TOKEN_EQ_EQ", X, K(4))),
           Op("TOKEN_GT", X, K(1))), 1)>> }
  \cup
  { \* int x = 0; x = x + 1; ... x = x + 1; return x;
    <<VariableDecl("x", K(0), 1)>> \o Increments(n) \o <<ReturnStatement(X, 1)>> :
      n \in 0 .. MaxRepeat }
  \cup LogicalSources

\* Programs the parser accepts and the semantic rules reject.
InvalidSources ==
  { \* return x;
    <<ReturnStatement(X, 1)>>,
    \* int x = 1; int x = 2; return x;
    <<VariableDecl("x", K(1), 1), VariableDecl("x", K(2), 1), ReturnStatement(X, 1)>>,
    \* break; return 0;
    <<BreakStatement(1), ReturnStatement(K(0), 1)>>,
    \* if (1) int y; return 0;
    <<IfStatement(K(1), VariableDecl("y", NULL_NODE, 1), NULL_NODE, 1),
      ReturnStatement(K(0), 1)>> }

\* n diagnostics of the syntax level, as n stray semicolons in a body give.
Diagnostics(id, n) ==
  [i \in 1 .. n |-> [id |-> id, level |-> "ERROR_SYNTAX", line |-> 1, column |-> 13 + i]]

\* What parser_parse_program leaves behind: the tree of a program without
\* syntax errors and no diagnostic; no tree and the diagnostic of a function
\* header without its brace (int main() return 42;); the tree of a function
\* whose erroneous statements were skipped and their diagnostics
\* (int main() { return 42 } and int main() { ;; ... ; }).
ParseResults ==
  { [ast |-> ProgramOf(stmts), diagnostics |-> <<>>] :
      stmts \in ValidSources \cup InvalidSources }
  \cup { [ast |-> NULL_NODE, diagnostics |-> Diagnostics(ERROR_SYNTAX_MISSING_BRACE, 1)],
         [ast |-> ProgramOf(<<>>),
          diagnostics |-> Diagnostics(ERROR_SYNTAX_MISSING_SEMICOLON, 1)] }
  \cup { [ast |-> ProgramOf(<<>>),
          diagnostics |-> Diagnostics(ERROR_SYNTAX_EXPECTED_EXPRESSION, n)] :
           n \in 1 .. MaxDiagnostics }

\* report_error for each diagnostic in turn: the list, and whether an
\* error_list_add call faulted.
RECURSIVE report_errors(_, _)
report_errors(errs, diagnostics) ==
  IF diagnostics = <<>> THEN [errors |-> errs, fault |-> FALSE]
  ELSE LET d == Head(diagnostics)
       IN  IF error_list_add_faults(errs, NULL) THEN [errors |-> errs, fault |-> TRUE]
           ELSE report_errors(error_list_add(errs, NULL, d.id, d.level, d.line, d.column),
                              Tail(diagnostics))

\* The command lines (argv[1..]).
CommandLines ==
  { <<>>, <<"in.c">>, <<"--print-ast", "in.c">>, <<"--print-ir", "in.c">>,
    <<"in.c", "other.c">> }

\* The loop over argv: the options, the input path, and whether an argument
\* was rejected.
RECURSIVE parse_arguments(_, _)
parse_arguments(args, opts) ==
  IF args = <<>> \/ opts.rejected THEN opts
  ELSE LET a == Head(args)
       IN  parse_arguments(Tail(args),
             IF a = "--print-ast" THEN [opts EXCEPT !.print_ast = TRUE]
             ELSE IF a = "--print-ir" THEN [opts EXCEPT !.print_ir = TRUE]
             ELSE IF opts.input_path = NULL THEN [opts EXCEPT !.input_path = a]
             ELSE [opts EXCEPT !.rejected = TRUE])

NoFile == [written |-> FALSE, data |-> <<>>, fault |-> FALSE]
NoRun == [status |-> "none", value |-> 0]

\* main's locals at its first statement; exit_code -1 while main has not
\* returned.
MainEntry ==
  [source |-> NULL, print_ast |-> FALSE, print_ir |-> FALSE, ast |-> NULL_NODE,
   ir_module |-> NULL_MODULE, file |-> NoFile, exit_code |-> -1, calls |-> <<>>,
   run |-> NoRun]

Init ==
  /\ pc = "main"
  /\ lexer = NoLexer
  /\ token = NoToken
  /\ lexed = [tokens |-> 0, skipped |-> 0]
  /\ errors = error_list_create
  /\ fault = FALSE
  /\ sem = NoWalk
  /\ gen = NoLowering
  /\ drv = MainEntry
  /\ parser = NoParser
  /\ heap = NoHeap

\* return code from main
Return(d, code) == [d EXCEPT !.exit_code = code]

\* main up to the creation of the parser.
ParseArguments ==
  /\ pc = "main"
  /\ \E argv \in CommandLines, readable \in BOOLEAN :
       LET opts == parse_arguments(argv, [print_ast |-> FALSE, print_ir |-> FALSE,
                                          input_path |-> NULL, rejected |-> FALSE])
           d == [drv EXCEPT !.source = opts.input_path,
                            !.print_ast = opts.print_ast,
                            !.print_ir = opts.print_ir]
       IN  IF Len(argv) + 1 < 2 \/ opts.rejected \/ opts.input_path = NULL \/ ~readable
           THEN pc' = "exit" /\ drv' = Return(d, 1)
           ELSE pc' = "parse" /\ drv' = d
  /\ UNCHANGED <<heap, parser, lexer, token, lexed, errors, fault, sem, gen>>

\* ast = parser_parse_program(parser)
ParseProgram ==
  /\ pc = "parse"
  /\ \E result \in ParseResults :
       \E r \in {report_errors(errors, result.diagnostics)} :
           /\ errors' = r.errors
           /\ fault' = r.fault
           /\ pc' = IF r.fault THEN "fault" ELSE "check_errors"
           /\ drv' = [drv EXCEPT !.ast = IF r.fault THEN @ ELSE result.ast,
                                 !.calls = Append(@, "parser_parse_program")]
  /\ UNCHANGED <<heap, parser, lexer, token, lexed, sem, gen>>

\* if (error_list_has_errors(errors)) { ... return 1; }
CheckErrors ==
  /\ pc = "check_errors"
  /\ IF error_list_has_errors(errors)
     THEN pc' = "exit" /\ drv' = Return(drv, 1)
     ELSE pc' = "check_ast" /\ drv' = drv
  /\ UNCHANGED <<heap, parser, lexer, token, lexed, errors, fault, sem, gen>>

\* if (!ast) { ... return 1; }
CheckAst ==
  /\ pc = "check_ast"
  /\ IF drv.ast.type = "NULL"
     THEN pc' = "exit" /\ drv' = Return(drv, 1)
     ELSE pc' = "print_ast" /\ drv' = drv
  /\ UNCHANGED <<heap, parser, lexer, token, lexed, errors, fault, sem, gen>>

\* if (print_ast) { ast_print(ast); ... return 0; }
PrintAst ==
  /\ pc = "print_ast"
  /\ IF drv.print_ast
     THEN pc' = "exit" /\ drv' = Return([drv EXCEPT !.calls = Append(@, "ast_print")], 0)
     ELSE pc' = "ir_generate" /\ drv' = drv
  /\ UNCHANGED <<heap, parser, lexer, token, lexed, errors, fault, sem, gen>>

\* ir_module = ir_generate(arena, ast); if (!ir_module) { ... return 1; }
GenerateIR ==
  /\ pc = "ir_generate"
  /\ \E junk \in JunkValues :
       \E ir_module \in {ir_generate(drv.ast, junk)} :
         \E d \in {[drv EXCEPT !.ir_module = ir_module,
                                !.calls = Append(@, "ir_generate")]} :
           IF ir_module.type = "NULL"
           THEN pc' = "exit" /\ drv' = Return(d, 1)
           ELSE pc' = "print_ir" /\ drv' = d
  /\ UNCHANGED <<heap, parser, lexer, token, lexed, errors, fault, sem, gen>>

\* if (print_ir) { ir_print(ir_module); ... return 0; }
PrintIR ==
  /\ pc = "print_ir"
  /\ IF drv.print_ir
     THEN pc' = "exit" /\ drv' = Return([drv EXCEPT !.calls = Append(@, "ir_print")], 0)
     ELSE pc' = "codegen_emit_wasm" /\ drv' = drv
  /\ UNCHANGED <<heap, parser, lexer, token, lexed, errors, fault, sem, gen>>

\* codegen_emit_wasm(arena, ir_module, "out.wasm"); ... return 0;
EmitWasm ==
  /\ pc = "codegen_emit_wasm"
  /\ \E opened \in BOOLEAN :
       \E file \in {codegen_emit_wasm(drv.ir_module, opened)} :
       \E d \in {[drv EXCEPT !.file = file,
                              !.calls = Append(@, "codegen_emit_wasm")]} :
         IF file.fault
         THEN pc' = "fault" /\ fault' = TRUE /\ drv' = d
         ELSE pc' = "exit" /\ fault' = fault /\ drv' = Return(d, 0)
  /\ UNCHANGED <<heap, parser, lexer, token, lexed, errors, sem, gen>>

\* The runtime loads the file the driver wrote and calls main.
RunOutput ==
  /\ pc = "exit"
  /\ drv.exit_code = 0
  /\ drv.file.written
  /\ pc' = "ran"
  /\ drv' = [drv EXCEPT !.run = RunModule(drv.file.data)]
  /\ UNCHANGED <<heap, parser, lexer, token, lexed, errors, fault, sem, gen>>

Next ==
  \/ ParseArguments
  \/ ParseProgram
  \/ CheckErrors
  \/ CheckAst
  \/ PrintAst
  \/ GenerateIR
  \/ PrintIR
  \/ EmitWasm
  \/ RunOutput

Spec == Init /\ [][Next]_vars

(***************************************************************************)
(* Properties of the driver.                                               *)
(***************************************************************************)
Called(name) == \E i \in 1 .. Len(drv.calls) : drv.calls[i] = name

CalledBefore(first, second) ==
  \A j \in 1 .. Len(drv.calls) :
    drv.calls[j] = second => \E i \in 1 .. j - 1 : drv.calls[i] = first

Parsed == pc \notin {"main", "parse"} /\ Called("parser_parse_program")

\* A diagnostic of a level other than WARNING has been recorded.
FatalRecorded ==
  \E i \in 1 .. Len(errors.errors) : errors.errors[i].level # "WARNING"

\* C1: when a program accepted without diagnostics has a value under C
\* semantics, running the module written for it returns that value.
C1_CompiledValueIsCValue ==
  (pc = "ran" /\ errors.count = 0 /\ CMain(drv.ast).defined)
    => drv.run = [status |-> "value", value |-> CMain(drv.ast).value]

\* C2: once the parser has recorded a diagnostic that is not a warning, or
\* has returned no tree, the driver ends by returning 1, and ir_generate and
\* codegen_emit_wasm are not called and no file is written.
C2_DiagnosticsEndInExitOne ==
  ((FatalRecorded /\ pc # "parse") \/ (Parsed /\ drv.ast.type = "NULL"))
    => /\ pc \in {"check_errors", "check_ast", "exit"}
       /\ pc = "exit" => drv.exit_code = 1
       /\ ~Called("ir_generate")
       /\ ~Called("codegen_emit_wasm")
       /\ ~drv.file.written

\* C3: lowering starts only after the semantic walk, and a program whose
\* only errors are semantic ends with exit code 1 and no module written.
C3_SemanticWalkGatesLowering ==
  /\ CalledBefore("semantic_analyze", "ir_generate")
  /\ (/\ pc \in {"exit", "ran"}
      /\ errors.count = 0
      /\ drv.ast \in {ProgramOf(stmts) : stmts \in InvalidSources}
      /\ ~drv.print_ast)
       => (drv.exit_code = 1 /\ ~drv.file.written)

\* C4: the file written starts with the magic and the version, and the
\* lengths written in front of the type, function, export and code sections
\* and of the function body are the numbers of bytes written for them: read
\* by those lengths, the four sections follow one another up to the last
\* byte of the file, each with its own content.
C4_SectionsTileTheFile ==
  drv.file.written =>
    LET bytes == drv.file.data
        sections == ReadSections(bytes, Len(WasmHeader) + 1)
        code == ReadCode(bytes, sections[4])
    IN  /\ Len(bytes) >= Len(WasmHeader)
        /\ SubSeq(bytes, 1, Len(WasmHeader)) = WasmHeader
        /\ [i \in 1 .. Len(sections) |-> sections[i].id]
             = <<SECTION_TYPE, SECTION_FUNCTION, SECTION_EXPORT, SECTION_CODE>>
        /\ \A i \in 1 .. Len(sections) : sections[i].ok
        /\ sections[4].start + sections[4].size = Len(bytes) + 1
        /\ Payload(bytes, sections[1]) = <<1, WASM_FUNC_TYPE, 0, 1, WASM_I32_TYPE>>
        /\ Payload(bytes, sections[2]) = <<1, 0>>
        /\ Payload(bytes, sections[3])
             = <<1, Len(MainName)>> \o MainName \o <<EXPORT_FUNC, 0>>
        /\ code.ok
        /\ code.size >= 1
        /\ bytes[code.start + code.size - 1] = WASM_END
        /\ ReadBody(bytes, code.start, code.size).ok

\* A file whose code section and function body have lengths of two LEB128
\* bytes.
C4_Witness ==
  /\ drv.file.written
  /\ ReadCode(drv.file.data,
              ReadSections(drv.file.data, Len(WasmHeader) + 1)[4]).size >= 128

(***************************************************************************)
(* The lowering of single tree nodes.  A node is lowered by                *)
(* ir_generate_expression or ir_generate_statement into a region of a      *)
(* function that has the locals x and y, and emit_region writes the code   *)
(* of that region.                                                         *)
(***************************************************************************)
RECURSIVE NodeExpressions(_)
NodeExpressions(depth) ==
  IF depth = 0 THEN {K(1), X}
  ELSE LET E == NodeExpressions(depth - 1)
       IN  E \cup { UnaryOp(op, e, 1) :
                      op \in {"TOKEN_MINUS", "TOKEN_BANG", "TOKEN_TILDE"}, e \in E }
             \cup { Op("TOKEN_PLUS", l, r) : l \in E, r \in E }
             \cup { Assignment("x", e, 1) : e \in E }
             \cup { TernaryExpression(c, t, K(1), 1) : c \in E, t \in E }

NodeStatements ==
  LET E == NodeExpressions(1)
      assign == Assignment("x", K(1), 1)
  IN  { ReturnStatement(e, 1) : e \in E }
        \cup { VariableDecl("z", e, 1) : e \in E \cup {NULL_NODE} }
        \cup { e \in E : e.type \in {"AST_ASSIGNMENT", "AST_BINARY_OP"} }
        \cup { IfStatement(e, assign, NULL_NODE, 1) : e \in E }
        \cup { IfStatement(e, ReturnStatement(K(1), 1), assign, 1) : e \in E }
        \cup { WhileStatement(K(1), assign, 1), CompoundStatement(<<assign>>, 1),
               BreakStatement(1), ContinueStatement(1) }

\* The context in a region of the given type of a function whose locals are
\* x and y.
node_context(type, junk) ==
  [regions |-> <<region_create(type, 0, NULL_REGION, junk)>>,
   current_region |-> 0,
   current_scope |-> ir_symbol_table_add(
                       ir_symbol_table_add(ir_symbol_table_create, "x", 0), "y", 1),
   locals |-> <<[name |-> "x", index |-> 0], [name |-> "y", index |-> 1]>>,
   next_region_id |-> 1, junk |-> junk]

InitNode ==
  /\ pc = "node"
  /\ lexer = NoLexer
  /\ token = NoToken
  /\ lexed = [tokens |-> 0, skipped |-> 0]
  /\ errors = error_list_create
  /\ fault = FALSE
  /\ sem = NoWalk
  /\ gen = NoLowering
  /\ drv = NoDriver
  /\ parser = NoParser
  /\ heap = NoHeap

Lowered(node, kind, ctx) ==
  [node |-> node, kind |-> kind, regions |-> ctx.regions, code |-> <<>>]

\* ir_generate_expression(ctx, expr)
LowerExpression ==
  /\ pc = "node"
  /\ \E expr \in NodeExpressions(MaxExprDepth), junk \in JunkValues,
        type \in {"REGION_FUNCTION", "REGION_BLOCK"} :
       gen' = Lowered(expr, "expression",
                      ir_generate_expression(node_context(type, junk), expr))
  /\ pc' = "lowered"
  /\ UNCHANGED <<heap, parser, lexer, token, lexed, errors, fault, sem, drv>>

\* ir_generate_statement(ctx, stmt)
LowerStatement ==
  /\ pc = "node"
  /\ \E stmt \in NodeStatements, junk \in JunkValues,
        type \in {"REGION_FUNCTION", "REGION_BLOCK"} :
       gen' = Lowered(stmt, "statement",
                      ir_generate_statement(node_context(type, junk), stmt))
  /\ pc' = "lowered"
  /\ UNCHANGED <<heap, parser, lexer, token, lexed, errors, fault, sem, drv>>

\* emit_region(buf, arena, region) on the region the node was lowered into.
EmitNode ==
  /\ pc = "lowered"
  /\ \E out \in {emit_region([data |-> <<>>, fault |-> FALSE], gen.regions, 0)} :
       /\ gen' = [gen EXCEPT !.code = out.data]
       /\ fault' = out.fault
       /\ pc' = IF out.fault THEN "fault" ELSE "emitted"
  /\ UNCHANGED <<heap, parser, lexer, token, lexed, errors, sem, drv>>

NextNode ==
  \/ LowerExpression
  \/ LowerStatement
  \/ EmitNode

SpecNode == InitNode /\ [][NextNode]_vars

(***************************************************************************)
(* The effect of a sequence of instructions on the evaluation stack: the   *)
(* height above the stack the sequence started with, and whether every     *)
(* value popped was pushed by the sequence itself.  An if pops its         *)
(* condition, and leaves what its branches leave.                          *)
(***************************************************************************)
Take(st, n) ==
  IF st.height >= n THEN [st EXCEPT !.height = @ - n] ELSE [st EXCEPT !.ok = FALSE]

NoEffect == [height |-> 0, ok |-> TRUE]

RECURSIVE StackEffect(_, _)
StackEffect(instrs, st) ==
  IF instrs = <<>> \/ ~st.ok THEN st
  ELSE
    LET inst == Head(instrs)
        op == inst.op
        after ==
          CASE op \in {WASM_I32_CONST, WASM_LOCAL_GET} -> Push(st, 1)
            [] op \in {WASM_LOCAL_SET, WASM_DROP, WASM_RETURN} -> Take(st, 1)
            [] op \in UnaryOps -> Push(Take(st, 1), 1)
            [] op \in BinaryOps -> Push(Take(st, 2), 1)
            [] op = WASM_IF ->
                 LET t == StackEffect(inst.then, NoEffect)
                     e == StackEffect(inst.else, NoEffect)
                 IN  IF t.ok /\ e.ok /\ (IF inst.has_else THEN e.height = t.height
                                         ELSE t.height = 0)
                     THEN Push(Take(st, 1), t.height)
                     ELSE [st EXCEPT !.ok = FALSE]
            [] OTHER -> [st EXCEPT !.ok = FALSE]
    IN  StackEffect(Tail(instrs), after)

\* C5: the code of an expression leaves exactly one value more on the stack
\* than it found, the code of a statement leaves the stack as it found it,
\* and neither pops a value it did not push.
C5_NetStackEffect ==
  pc = "emitted" =>
    LET code == ReadInstrs(gen.code, 1, <<>>)
        effect == StackEffect(code.instrs, NoEffect)
    IN  /\ code.stop = "eof"
        /\ effect.ok
        /\ effect.height = IF gen.kind = "expression" THEN 1 ELSE 0

(***************************************************************************)
(* The parser (src/arena.c, from parser_create on).  A Parser is the       *)
(* tokens the lexer hands out, the place of the current token among them,  *)
(* the diagnostics list, and whether the process has faulted.  A token is  *)
(* its kind, its lexeme (a sequence of characters), and the line and       *)
(* column the lexer gave it; past the last token the lexer returns the EOF *)
(* token again and again.  Every parse function returns the node, which   *)
(* is NULL_NODE for a NULL pointer, and the parser after the call.         *)
(***************************************************************************)
ERROR_SYNTAX_EXPECTED_TOKEN == 2001
ERROR_SYNTAX_UNEXPECTED_TOKEN == 2002
ERROR_SYNTAX_MISSING_PAREN == 2005
ERROR_SEM_INVALID_ASSIGNMENT == 3005
ERROR_SEM_INVALID_CALL == 3006

\* The tokens of the lexemes written on one line with one blank between them.
RECURSIVE Layout(_, _, _)
Layout(lexemes, column, acc) ==
  IF lexemes = <<>> THEN acc
  ELSE Layout(Tail(lexemes), column + Len(Head(lexemes).text) + 1,
              Append(acc, [type |-> Head(lexemes).type, text |-> Head(lexemes).text,
                           line |-> 1, column |-> column]))

EofToken(tokens) ==
  IF tokens = <<>>
  THEN [type |-> "TOKEN_EOF", text |-> <<>>, line |-> 1, column |-> 1]
  ELSE LET last == tokens[Len(tokens)]
       IN  [type |-> "TOKEN_EOF", text |-> <<>>, line |-> last.line,
            column |-> last.column + Len(last.text)]

\* parser->current_token
current_token(p) ==
  IF p.pos <= Len(p.tokens) THEN p.tokens[p.pos] ELSE EofToken(p.tokens)

\* parser_create: the first token is read.
parser_create(tokens, errs) ==
  [tokens |-> tokens, pos |-> 1, errors |-> errs, fault |-> FALSE]

advance_token(p) ==
  IF p.pos <= Len(p.tokens) THEN [p EXCEPT !.pos = @ + 1] ELSE p

\* error_list_add(parser->errors, NULL, error_id, ERROR_SYNTAX, location, ..)
report_error(p, error_id) ==
  IF p.fault THEN p
  ELSE IF error_list_add_faults(p.errors, NULL) THEN [p EXCEPT !.fault = TRUE]
  ELSE [p EXCEPT !.errors = error_list_add(@, NULL, error_id, "ERROR_SYNTAX",
                                           current_token(p).line,
                                           current_token(p).column)]

RECURSIVE synchronize(_)
synchronize(p) ==
  IF current_token(p).type = "TOKEN_EOF" THEN p
  ELSE IF current_token(p).type \in {"TOKEN_SEMICOLON", "TOKEN_OPEN_BRACE",
                                     "TOKEN_CLOSE_BRACE"}
       THEN p
       ELSE synchronize(advance_token(p))

\* match_token is At followed by advance_token when At holds.
At(p, type) == current_token(p).type = type

create_ast_node(p, type) ==
  [type |-> type, line |-> current_token(p).line, column |-> current_token(p).column]

Returned(node, p) == [node |-> node, p |-> p]
ReturnedNull(p) == [node |-> NULL_NODE, p |-> p]
IsNull(r) == r.node.type = "NULL"

\* str_to_long(start, &endptr, 10) on the digits of an integer literal.
RECURSIVE str_to_long(_, _)
str_to_long(digits, result) ==
  IF digits = <<>> THEN result
  ELSE str_to_long(Tail(digits),
                   result * 10 + (CHOOSE d \in 0 .. 9 : ToString(d) = Head(digits)))

\* The operators of the six binary levels, the loosest first, and the
\* function that parses the operands of each level.
LevelOperators(level) ==
  CASE level = "parse_logical_or" -> {"TOKEN_PIPE_PIPE"}
    [] level = "parse_logical_and" -> {"TOKEN_AMP_AMP"}
    [] level = "parse_equality" -> {"TOKEN_EQ_EQ", "TOKEN_BANG_EQ"}
    [] level = "parse_relational" ->
         {"TOKEN_LT", "TOKEN_GT", "TOKEN_LT_EQ", "TOKEN_GT_EQ"}
    [] level = "parse_additive" -> {"TOKEN_PLUS", "TOKEN_MINUS"}
    [] level = "parse_multiplicative" ->
         {"TOKEN_STAR", "TOKEN_SLASH", "TOKEN_PERCENT"}

LevelOperand(level) ==
  CASE level = "parse_logical_or" -> "parse_logical_and"
    [] level = "parse_logical_and" -> "parse_equality"
    [] level = "parse_equality" -> "parse_relational"
    [] level = "parse_relational" -> "parse_additive"
    [] level = "parse_additive" -> "parse_multiplicative"
    [] level = "parse_multiplicative" -> "parse_unary"

RECURSIVE parse_expression(_)
RECURSIVE parse_assignment_expression(_)
RECURSIVE parse_ternary_expression(_)
RECURSIVE parse_binary(_, _)
RECURSIVE binary_loop(_, _)
RECURSIVE parse_unary(_)
RECURSIVE parse_primary(_)

\* if (!match_token(parser, TOKEN_CLOSE_PAREN)) { report_error(..); return NULL; }
close_paren(expr) ==
  IF IsNull(expr) THEN expr
  ELSE IF At(expr.p, "TOKEN_CLOSE_PAREN") THEN Returned(expr.node, advance_token(expr.p))
  ELSE ReturnedNull(report_error(expr.p, ERROR_SYNTAX_MISSING_PAREN))

parse_primary(p) ==
  LET t == current_token(p)
      a == advance_token(p)
  IN  IF t.type = "TOKEN_INTEGER_LITERAL"
      THEN IF At(a, "TOKEN_OPEN_PAREN")
           THEN ReturnedNull(advance_token(report_error(a, ERROR_SEM_INVALID_CALL)))
           ELSE Returned([type |-> "AST_INTEGER_CONSTANT", line |-> t.line,
                          column |-> t.column, value |-> str_to_long(t.text, 0)], a)
      ELSE IF t.type = "TOKEN_IDENTIFIER"
      THEN Returned([type |-> "AST_VARIABLE_REF", line |-> t.line,
                     column |-> t.column, name |-> t.text], a)
      ELSE IF t.type = "TOKEN_OPEN_PAREN"
      THEN close_paren(parse_expression(a))
      ELSE ReturnedNull(synchronize(report_error(p, ERROR_SYNTAX_EXPECTED_EXPRESSION)))

\* The node is created after the operand is parsed: its position is that of
\* the token that follows the operand.
unary_node(op, operand) ==
  IF IsNull(operand) THEN operand
  ELSE Returned([type |-> "AST_UNARY_OP", line |-> current_token(operand.p).line,
                 column |-> current_token(operand.p).column,
                 operator |-> op, operand |-> operand.node], operand.p)

parse_unary(p) ==
  IF current_token(p).type \in {"TOKEN_BANG", "TOKEN_TILDE", "TOKEN_MINUS"}
  THEN unary_node(current_token(p).type, parse_unary(advance_token(p)))
  ELSE parse_primary(p)

parse_operand(level, p) ==
  IF LevelOperand(level) = "parse_unary" THEN parse_unary(p)
  ELSE parse_binary(LevelOperand(level), p)

\* One turn of the while loop of a binary level, after the right operand.
binary_node(level, left, op, right) ==
  IF IsNull(right) THEN right
  ELSE binary_loop(level,
         Returned([type |-> "AST_BINARY_OP", line |-> current_token(right.p).line,
                   column |-> current_token(right.p).column,
                   operator |-> op, left |-> left.node, right |-> right.node],
                  right.p))

binary_loop(level, left) ==
  IF IsNull(left) THEN left
  ELSE IF current_token(left.p).type \in LevelOperators(level)
       THEN binary_node(level, left, current_token(left.p).type,
                        parse_operand(level, advance_token(left.p)))
       ELSE left

parse_binary(level, p) == binary_loop(level, parse_operand(level, p))

parse_multiplicative(p) == parse_binary("parse_multiplicative", p)
parse_additive(p) == parse_binary("parse_additive", p)
parse_relational(p) == parse_binary("parse_relational", p)
parse_equality(p) == parse_binary("parse_equality", p)
parse_logical_and(p) == parse_binary("parse_logical_and", p)
parse_logical_or(p) == parse_binary("parse_logical_or", p)

ternary_node(condition, true_expr, false_expr) ==
  IF IsNull(false_expr) THEN false_expr
  ELSE Returned([type |-> "AST_TERNARY_EXPRESSION",
                 line |-> current_token(false_expr.p).line,
                 column |-> current_token(false_expr.p).column,
                 condition |-> condition.node, true_expression |-> true_expr.node,
                 false_expression |-> false_expr.node], false_expr.p)

ternary_colon(condition, true_expr) ==
  IF IsNull(true_expr) THEN true_expr
  ELSE IF At(true_expr.p, "TOKEN_COLON")
       THEN ternary_node(condition, true_expr,
                         parse_ternary_expression(advance_token(true_expr.p)))
       ELSE ReturnedNull(report_error(true_expr.p, ERROR_SYNTAX_EXPECTED_TOKEN))

ternary_question(condition) ==
  IF IsNull(condition) THEN condition
  ELSE IF At(condition.p, "TOKEN_QUESTION")
       THEN ternary_colon(condition, parse_expression(advance_token(condition.p)))
       ELSE condition

parse_ternary_expression(p) == ternary_question(parse_logical_or(p))

\* left may be NULL here: left->type is then a read through a null pointer.
assignment_node(left, right) ==
  IF IsNull(right) THEN right
  ELSE IF IsNull(left) THEN ReturnedNull([right.p EXCEPT !.fault = TRUE])
  ELSE IF left.node.type # "AST_VARIABLE_REF"
       THEN ReturnedNull(report_error(right.p, ERROR_SEM_INVALID_ASSIGNMENT))
       ELSE Returned([type |-> "AST_ASSIGNMENT", line |-> current_token(right.p).line,
                      column |-> current_token(right.p).column,
                      name |-> left.node.name, value |-> right.node], right.p)

assignment_eq(left) ==
  IF At(left.p, "TOKEN_EQ")
  THEN assignment_node(left, parse_assignment_expression(advance_token(left.p)))
  ELSE left

parse_assignment_expression(p) == assignment_eq(parse_ternary_expression(p))

parse_expression(p) == parse_assignment_expression(p)

MAX_STATEMENTS == 256

RECURSIVE parse_statement(_)
RECURSIVE statement_loop(_, _, _)

declaration_semicolon(node, p) ==
  IF At(p, "TOKEN_SEMICOLON") THEN Returned(node, advance_token(p))
  ELSE ReturnedNull(report_error(p, ERROR_SYNTAX_MISSING_SEMICOLON))

declaration_initializer(node, initializer) ==
  IF IsNull(initializer) THEN initializer
  ELSE declaration_semicolon([node EXCEPT !.initializer = initializer.node],
                             initializer.p)

parse_declaration(p) ==
  LET a == advance_token(p)
      name == current_token(a)
      b == advance_token(a)
      node == [type |-> "AST_VARIABLE_DECL", line |-> name.line, column |-> name.column,
               name |-> name.text, initializer |-> NULL_NODE]
  IN  IF ~At(p, "TOKEN_INT")
      THEN ReturnedNull(report_error(p, ERROR_SYNTAX_EXPECTED_TOKEN))
      ELSE IF name.type # "TOKEN_IDENTIFIER"
      THEN ReturnedNull(report_error(a, ERROR_SYNTAX_EXPECTED_TOKEN))
      ELSE IF At(b, "TOKEN_EQ")
      THEN declaration_initializer(node, parse_expression(advance_token(b)))
      ELSE declaration_semicolon(node, b)

\* The condition of an if or a while: '(' expression ')'.
parenthesized_condition(p) ==
  IF ~At(p, "TOKEN_OPEN_PAREN")
  THEN ReturnedNull(report_error(p, ERROR_SYNTAX_MISSING_PAREN))
  ELSE close_paren(parse_expression(advance_token(p)))

if_node(condition, then_statement, else_statement, p) ==
  Returned([type |-> "AST_IF_STATEMENT", line |-> current_token(p).line,
            column |-> current_token(p).column, condition |-> condition.node,
            then_statement |-> then_statement.node,
            else_statement |-> else_statement], p)

if_else_statement(condition, then_statement, else_statement) ==
  IF IsNull(else_statement) THEN else_statement
  ELSE if_node(condition, then_statement, else_statement.node, else_statement.p)

if_then_statement(condition, then_statement) ==
  IF IsNull(then_statement) THEN then_statement
  ELSE IF At(then_statement.p, "TOKEN_ELSE")
       THEN if_else_statement(condition, then_statement,
                              parse_statement(advance_token(then_statement.p)))
       ELSE if_node(condition, then_statement, NULL_NODE, then_statement.p)

if_condition(condition) ==
  IF IsNull(condition) THEN condition
  ELSE if_then_statement(condition, parse_statement(condition.p))

parse_if_statement(p) ==
  IF ~At(p, "TOKEN_IF") THEN ReturnedNull(report_error(p, ERROR_SYNTAX_EXPECTED_TOKEN))
  ELSE if_condition(parenthesized_condition(advance_token(p)))

while_body(condition, body) ==
  IF IsNull(body) THEN body
  ELSE Returned([type |-> "AST_WHILE_STATEMENT", line |-> current_token(body.p).line,
                 column |-> current_token(body.p).column,
                 condition |-> condition.node, body |-> body.node], body.p)

while_condition(condition) ==
  IF IsNull(condition) THEN condition
  ELSE while_body(condition, parse_statement(condition.p))

parse_while_statement(p) ==
  IF ~At(p, "TOKEN_WHILE") THEN ReturnedNull(report_error(p, ERROR_SYNTAX_EXPECTED_TOKEN))
  ELSE while_condition(parenthesized_condition(advance_token(p)))

\* The loop over the statements of a function body or of a block, which
\* keeps the statements parsed and skips to a synchronization point after
\* one that failed, one token further when that did not move the parser.
\* checked tells the loop of parse_compound_statement, which tests the count
\* against MAX_STATEMENTS before it stores a statement, from the loop of
\* parse_function, which stores without a test.
statement_recover(prev, stmts, s, checked) ==
  statement_loop(IF s.pos = prev THEN advance_token(s) ELSE s, stmts, checked)

statement_parsed(prev, stmts, stmt, checked) ==
  IF IsNull(stmt) THEN statement_recover(prev, stmts, synchronize(stmt.p), checked)
  ELSE IF checked /\ Len(stmts) >= MAX_STATEMENTS
       THEN [statements |-> stmts, full |-> TRUE,
             p |-> report_error(stmt.p, ERROR_SYNTAX_UNEXPECTED_TOKEN)]
       ELSE statement_loop(stmt.p, Append(stmts, stmt.node), checked)

statement_loop(p, stmts, checked) ==
  IF p.fault \/ current_token(p).type \in {"TOKEN_CLOSE_BRACE", "TOKEN_EOF"}
  THEN [statements |-> stmts, full |-> FALSE, p |-> p]
  ELSE statement_parsed(p.pos, stmts, parse_statement(p), checked)

compound_close(node, body) ==
  IF body.full THEN ReturnedNull(body.p)
  ELSE IF At(body.p, "TOKEN_CLOSE_BRACE")
  THEN Returned([node EXCEPT !.statements = body.statements], advance_token(body.p))
  ELSE ReturnedNull(report_error(body.p, ERROR_SYNTAX_MISSING_BRACE))

parse_compound_statement(p) ==
  LET a == advance_token(p)
  IN  IF ~At(p, "TOKEN_OPEN_BRACE")
      THEN ReturnedNull(report_error(p, ERROR_SYNTAX_MISSING_BRACE))
      ELSE compound_close([type |-> "AST_COMPOUND_STATEMENT",
                           line |-> current_token(a).line,
                           column |-> current_token(a).column, statements |-> <<>>],
                          statement_loop(a, <<>>, TRUE))

return_expression(node, expression) ==
  IF IsNull(expression) THEN expression
  ELSE IF At(expression.p, "TOKEN_SEMICOLON")
       THEN Returned([node EXCEPT !.expression = expression.node],
                     advance_token(expression.p))
       ELSE ReturnedNull(synchronize(report_error(expression.p,
                                                  ERROR_SYNTAX_MISSING_SEMICOLON)))

expression_statement(expr) ==
  IF IsNull(expr) THEN expr
  ELSE IF At(expr.p, "TOKEN_SEMICOLON") THEN Returned(expr.node, advance_token(expr.p))
  ELSE ReturnedNull(report_error(expr.p, ERROR_SYNTAX_MISSING_SEMICOLON))

parse_statement(p) ==
  LET t == current_token(p)
      a == advance_token(p)
  IN  IF t.type = "TOKEN_INT" THEN parse_declaration(p)
      ELSE IF t.type = "TOKEN_IF" THEN parse_if_statement(p)
      ELSE IF t.type = "TOKEN_WHILE" THEN parse_while_statement(p)
      ELSE IF t.type = "TOKEN_OPEN_BRACE" THEN parse_compound_statement(p)
      ELSE IF t.type = "TOKEN_RETURN"
      THEN return_expression([type |-> "AST_RETURN_STATEMENT",
                              line |-> current_token(a).line,
                              column |-> current_token(a).column,
                              expression |-> NULL_NODE],
                             parse_expression(a))
      ELSE IF t.type = "TOKEN_IDENTIFIER"
                /\ t.text = <<"r", "e", "t", "u", "r", "n", "0">>
      THEN ReturnedNull(synchronize(report_error(p, ERROR_SYNTAX_UNEXPECTED_TOKEN)))
      ELSE expression_statement(parse_expression(p))

function_close(node, body) ==
  IF At(body.p, "TOKEN_CLOSE_BRACE")
  THEN Returned([node EXCEPT !.statements = body.statements], advance_token(body.p))
  ELSE ReturnedNull(synchronize(report_error(body.p, ERROR_SYNTAX_MISSING_BRACE)))

parse_function(p) ==
  LET a == advance_token(p)
      name == current_token(a)
      b == advance_token(a)
      c == advance_token(b)
      d == advance_token(c)
      Fail(q, error_id) == ReturnedNull(synchronize(report_error(q, error_id)))
  IN  IF ~At(p, "TOKEN_INT") THEN Fail(p, ERROR_SYNTAX_EXPECTED_TOKEN)
      ELSE IF name.type # "TOKEN_IDENTIFIER" THEN Fail(a, ERROR_SYNTAX_EXPECTED_TOKEN)
      ELSE IF ~At(b, "TOKEN_OPEN_PAREN") THEN Fail(b, ERROR_SYNTAX_MISSING_PAREN)
      ELSE IF ~At(c, "TOKEN_CLOSE_PAREN") THEN Fail(c, ERROR_SYNTAX_MISSING_PAREN)
      ELSE IF ~At(d, "TOKEN_OPEN_BRACE") THEN Fail(d, ERROR_SYNTAX_MISSING_BRACE)
      ELSE function_close([type |-> "AST_FUNCTION", line |-> name.line,
                           column |-> name.column, name |-> name.text,
                           statements |-> <<>>],
                          statement_loop(advance_token(d), <<>>, FALSE))

program_function(node, function) ==
  IF IsNull(function) THEN function
  ELSE IF ~At(function.p, "TOKEN_EOF")
       THEN ReturnedNull(report_error(function.p, ERROR_SYNTAX_UNEXPECTED_TOKEN))
       ELSE Returned([node EXCEPT !.function = function.node], function.p)

parser_parse_program(p) ==
  program_function([type |-> "AST_PROGRAM", line |-> current_token(p).line,
                    column |-> current_token(p).column, function |-> NULL_NODE],
                   parse_function(p))

(***************************************************************************)
(* What the parser is run over: token sequences written out from trees by  *)
(* the grammar of the language (the reference the parser's result is       *)
(* compared with), and such sequences with one ';' left out.               *)
(***************************************************************************)
Lexeme(type, text) == [type |-> type, text |-> text]

\* The spelling of the keywords and the punctuators.
TokenText(type) ==
  CASE type = "TOKEN_INT" -> <<"i", "n", "t">>
    [] type = "TOKEN_RETURN" -> <<"r", "e", "t", "u", "r", "n">>
    [] type = "TOKEN_IF" -> <<"i", "f">>
    [] type = "TOKEN_ELSE" -> <<"e", "l", "s", "e">>
    [] type = "TOKEN_WHILE" -> <<"w", "h", "i", "l", "e">>
    [] type = "TOKEN_DO" -> <<"d", "o">>
    [] type = "TOKEN_BREAK" -> <<"b", "r", "e", "a", "k">>
    [] type = "TOKEN_CONTINUE" -> <<"c", "o", "n", "t", "i", "n", "u", "e">>
    [] type = "TOKEN_OPEN_PAREN" -> <<"(">>
    [] type = "TOKEN_CLOSE_PAREN" -> <<")">>
    [] type = "TOKEN_OPEN_BRACE" -> <<"{">>
    [] type = "TOKEN_CLOSE_BRACE" -> <<"}">>
    [] type = "TOKEN_SEMICOLON" -> <<";">>
    [] type = "TOKEN_BANG" -> <<"!">>
    [] type = "TOKEN_TILDE" -> <<"~">>
    [] type = "TOKEN_MINUS" -> <<"-">>
    [] type = "TOKEN_PLUS" -> <<"+">>
    [] type = "TOKEN_STAR" -> <<"*">>
    [] type = "TOKEN_SLASH" -> <<"/">>
    [] type = "TOKEN_PERCENT" -> <<"%">>
    [] type = "TOKEN_EQ" -> <<"=">>
    [] type = "TOKEN_EQ_EQ" -> <<"=", "=">>
    [] type = "TOKEN_BANG_EQ" -> <<"!", "=">>
    [] type = "TOKEN_LT" -> <<"<">>
    [] type = "TOKEN_GT" -> <<">">>
    [] type = "TOKEN_LT_EQ" -> <<"<", "=">>
    [] type = "TOKEN_GT_EQ" -> <<">", "=">>
    [] type = "TOKEN_AMP_AMP" -> <<"&", "&">>
    [] type = "TOKEN_PIPE_PIPE" -> <<"|", "|">>
    [] type = "TOKEN_QUESTION" -> <<"?">>
    [] type = "TOKEN_COLON" -> <<":">>

Fixed(type) == <<Lexeme(type, TokenText(type))>>
Identifier(name) == <<Lexeme("TOKEN_IDENTIFIER", name)>>

RECURSIVE Digits(_)
Digits(v) ==
  IF v < 10 THEN <<ToString(v)>> ELSE Append(Digits(v \div 10), ToString(v % 10))

IntegerLiteral(v) == <<Lexeme("TOKEN_INTEGER_LITERAL", Digits(v))>>

\* How tightly the grammar binds an expression: assignment 1, ternary 2,
\* the binary levels 3 (||) to 8 (multiplicative), unary 9, primary 10.
OperatorLevel(operator) ==
  CASE operator \in LevelOperators("parse_logical_or") -> 3
    [] operator \in LevelOperators("parse_logical_and") -> 4
    [] operator \in LevelOperators("parse_equality") -> 5
    [] operator \in LevelOperators("parse_relational") -> 6
    [] operator \in LevelOperators("parse_additive") -> 7
    [] operator \in LevelOperators("parse_multiplicative") -> 8

GrammarLevel(e) ==
  CASE e.type = "AST_ASSIGNMENT" -> 1
    [] e.type = "AST_TERNARY_EXPRESSION" -> 2
    [] e.type = "AST_BINARY_OP" -> OperatorLevel(e.operator)
    [] e.type = "AST_UNARY_OP" -> 9
    [] OTHER -> 10

\* The lexemes of expression e where the grammar asks for an expression of
\* level min or tighter: in parentheses when e binds more loosely.  A binary
\* level takes its own level on the left and the next on the right (left
\* associative); unary, ternary and assignment take their own level on the
\* right (right associative); between '?' and ':' any expression stands.
RECURSIVE ExpressionLexemes(_, _)
ExpressionLexemes(e, min) ==
  LET level == GrammarLevel(e)
      bare ==
        CASE e.type = "AST_INTEGER_CONSTANT" -> IntegerLiteral(e.value)
          [] e.type = "AST_VARIABLE_REF" -> Identifier(e.name)
          [] e.type = "AST_UNARY_OP" ->
               Fixed(e.operator) \o ExpressionLexemes(e.operand, 9)
          [] e.type = "AST_BINARY_OP" ->
               ExpressionLexemes(e.left, level) \o Fixed(e.operator)
                 \o ExpressionLexemes(e.right, level + 1)
          [] e.type = "AST_TERNARY_EXPRESSION" ->
               ExpressionLexemes(e.condition, 3) \o Fixed("TOKEN_QUESTION")
                 \o ExpressionLexemes(e.true_expression, 1) \o Fixed("TOKEN_COLON")
                 \o ExpressionLexemes(e.false_expression, 2)
          [] e.type = "AST_ASSIGNMENT" ->
               Identifier(e.name) \o Fixed("TOKEN_EQ") \o ExpressionLexemes(e.value, 1)
  IN  IF level >= min THEN bare
      ELSE Fixed("TOKEN_OPEN_PAREN") \o bare \o Fixed("TOKEN_CLOSE_PAREN")

RECURSIVE StatementLexemes(_)
RECURSIVE StatementsLexemes(_)
StatementLexemes(s) ==
  CASE s.type = "AST_VARIABLE_DECL" ->
         Fixed("TOKEN_INT") \o Identifier(s.name)
           \o (IF s.initializer.type = "NULL" THEN <<>>
               ELSE Fixed("TOKEN_EQ") \o ExpressionLexemes(s.initializer, 1))
           \o Fixed("TOKEN_SEMICOLON")
    [] s.type = "AST_RETURN_STATEMENT" ->
         Fixed("TOKEN_RETURN") \o ExpressionLexemes(s.expression, 1)
           \o Fixed("TOKEN_SEMICOLON")
    [] s.type = "AST_IF_STATEMENT" ->
         Fixed("TOKEN_IF") \o Fixed("TOKEN_OPEN_PAREN")
           \o ExpressionLexemes(s.condition, 1) \o Fixed("TOKEN_CLOSE_PAREN")
           \o StatementLexemes(s.then_statement)
           \o (IF s.else_statement.type = "NULL" THEN <<>>
               ELSE Fixed("TOKEN_ELSE") \o StatementLexemes(s.else_statement))
    [] s.type = "AST_WHILE_STATEMENT" ->
         Fixed("TOKEN_WHILE") \o Fixed("TOKEN_OPEN_PAREN")
           \o ExpressionLexemes(s.condition, 1) \o Fixed("TOKEN_CLOSE_PAREN")
           \o StatementLexemes(s.body)
    [] s.type = "AST_COMPOUND_STATEMENT" ->
         Fixed("TOKEN_OPEN_BRACE") \o StatementsLexemes(s.statements)
           \o Fixed("TOKEN_CLOSE_BRACE")
    [] s.type = "AST_BREAK_STATEMENT" ->
         Fixed("TOKEN_BREAK") \o Fixed("TOKEN_SEMICOLON")
    [] s.type = "AST_CONTINUE_STATEMENT" ->
         Fixed("TOKEN_CONTINUE") \o Fixed("TOKEN_SEMICOLON")
    [] OTHER -> ExpressionLexemes(s, 1) \o Fixed("TOKEN_SEMICOLON")

StatementsLexemes(stmts) ==
  IF stmts = <<>> THEN <<>>
  ELSE StatementLexemes(Head(stmts)) \o StatementsLexemes(Tail(stmts))

\* int main ( ) {
FunctionHeader ==
  Fixed("TOKEN_INT") \o Identifier(<<"m", "a", "i", "n">>)
    \o Fixed("TOKEN_OPEN_PAREN") \o Fixed("TOKEN_CLOSE_PAREN") \o Fixed("TOKEN_OPEN_BRACE")

\* The node without the positions in it and in the nodes below it.
RECURSIVE Shape(_)
Shape(n) ==
  IF n.type = "NULL" THEN n
  ELSE
    LET m == [n EXCEPT !.line = 0, !.column = 0]
        t == n.type
    IN  CASE t = "AST_UNARY_OP" -> [m EXCEPT !.operand = Shape(@)]
          [] t = "AST_BINARY_OP" -> [m EXCEPT !.left = Shape(@), !.right = Shape(@)]
          [] t = "AST_ASSIGNMENT" -> [m EXCEPT !.value = Shape(@)]
          [] t = "AST_TERNARY_EXPRESSION" ->
               [m EXCEPT !.condition = Shape(@), !.true_expression = Shape(@),
                         !.false_expression = Shape(@)]
          [] t = "AST_RETURN_STATEMENT" -> [m EXCEPT !.expression = Shape(@)]
          [] t = "AST_VARIABLE_DECL" -> [m EXCEPT !.initializer = Shape(@)]
          [] t = "AST_IF_STATEMENT" ->
               [m EXCEPT !.condition = Shape(@), !.then_statement = Shape(@),
                         !.else_statement = Shape(@)]
          [] t = "AST_WHILE_STATEMENT" ->
               [m EXCEPT !.condition = Shape(@), !.body = Shape(@)]
          [] t \in {"AST_COMPOUND_STATEMENT", "AST_FUNCTION"} ->
               [m EXCEPT !.statements = [i \in 1 .. Len(@) |-> Shape(@[i])]]
          [] t = "AST_PROGRAM" -> [m EXCEPT !.function = Shape(@)]
          [] OTHER -> m

\* The statements of the tree, at every depth.
RECURSIVE StatementNodes(_)
StatementNodes(n) ==
  CASE n.type = "AST_PROGRAM" -> StatementNodes(n.function)
    [] n.type \in {"AST_FUNCTION", "AST_COMPOUND_STATEMENT"} ->
         (IF n.type = "AST_FUNCTION" THEN {} ELSE {n})
           \cup UNION { StatementNodes(n.statements[i]) : i \in 1 .. Len(n.statements) }
    [] n.type = "AST_IF_STATEMENT" ->
         {n} \cup StatementNodes(n.then_statement) \cup StatementNodes(n.else_statement)
    [] n.type = "AST_WHILE_STATEMENT" -> {n} \cup StatementNodes(n.body)
    [] n.type = "NULL" -> {}
    [] OTHER -> {n}

NameX == <<"x">>
NameY == <<"y">>
NameMain == <<"m", "a", "i", "n">>
NameReturn0 == <<"r", "e", "t", "u", "r", "n", "0">>

IdentifierSpellings == {NameX, <<"_">>, <<"r", "e", "t">>, NameReturn0}

AllBinaryOperators ==
  UNION { LevelOperators(level) :
            level \in {"parse_logical_or", "parse_logical_and", "parse_equality",
                       "parse_relational", "parse_additive", "parse_multiplicative"} }

UnaryOperators == {"TOKEN_BANG", "TOKEN_TILDE", "TOKEN_MINUS"}

\* Reference trees carry no positions.
RefK(v) == IntegerConstant(v, 0)
RefVar(name) == VariableRef(name, 0)
RefOp(op, l, r) == BinaryOp(op, l, r, 0)
RefUnary(op, e) == UnaryOp(op, e, 0)
RefTernary(c, t, f) == TernaryExpression(c, t, f, 0)
RefAssign(name, v) == Assignment(name, v, 0)

\* Two operators of any two levels nested to the left and to the right,
\* unary operators above and below a binary one and each other, ternaries
\* in every place of a ternary, assignments chained and around the rest.
TernaryParts ==
  { RefVar(NameX), RefTernary(RefVar(NameX), RefK(1), RefVar(NameY)),
    RefAssign(NameX, RefK(1)), RefOp("TOKEN_PIPE_PIPE", RefVar(NameX), RefK(1)) }

GrammarExpressions ==
  { RefOp(o1, RefOp(o2, RefVar(NameX), RefK(1)), RefVar(NameY)) :
      o1 \in AllBinaryOperators, o2 \in AllBinaryOperators }
  \cup { RefOp(o1, RefVar(NameX), RefOp(o2, RefK(1), RefVar(NameY))) :
           o1 \in AllBinaryOperators, o2 \in AllBinaryOperators }
  \cup { RefUnary(u1, RefUnary(u2, RefVar(NameX))) :
           u1 \in UnaryOperators, u2 \in UnaryOperators }
  \cup { RefUnary(u, RefOp(o, RefVar(NameX), RefK(1))) :
           u \in UnaryOperators, o \in AllBinaryOperators }
  \cup { RefOp(o, RefUnary(u, RefVar(NameX)), RefK(1)) :
           u \in UnaryOperators, o \in AllBinaryOperators }
  \cup { RefOp(o, RefK(1), RefUnary(u, RefVar(NameX))) :
           u \in UnaryOperators, o \in AllBinaryOperators }
  \cup { RefTernary(c, t, f) : c \in TernaryParts, t \in TernaryParts, f \in TernaryParts }
  \cup { RefAssign(NameX, v) :
           v \in TernaryParts \cup {RefAssign(NameY, RefAssign(NameX, RefK(42)))} }

GrammarStatements ==
  { VariableDecl(NameY, NULL_NODE, 0),
    VariableDecl(NameY, RefOp("TOKEN_PLUS", RefVar(NameX), RefK(1)), 0),
    IfStatement(RefVar(NameX), RefAssign(NameX, RefK(1)), NULL_NODE, 0),
    IfStatement(RefVar(NameX), RefAssign(NameX, RefK(1)), ReturnStatement(RefK(2), 0), 0),
    IfStatement(RefVar(NameX),
                IfStatement(RefVar(NameY), RefAssign(NameX, RefK(1)),
                            RefAssign(NameX, RefK(2)), 0), NULL_NODE, 0),
    IfStatement(RefVar(NameX),
                CompoundStatement(<<IfStatement(RefVar(NameY), RefAssign(NameX, RefK(1)),
                                                NULL_NODE, 0)>>, 0),
                RefAssign(NameX, RefK(2)), 0),
    WhileStatement(RefOp("TOKEN_LT", RefVar(NameX), RefK(5)),
                   RefAssign(NameX, RefOp("TOKEN_PLUS", RefVar(NameX), RefK(1))), 0),
    WhileStatement(RefVar(NameX),
                   CompoundStatement(<<VariableDecl(NameY, NULL_NODE, 0),
                                       RefAssign(NameX, RefK(0))>>, 0), 0),
    WhileStatement(RefK(1), BreakStatement(0), 0),
    WhileStatement(RefK(1),
                   CompoundStatement(<<IfStatement(RefVar(NameX), ContinueStatement(0),
                                                   NULL_NODE, 0),
                                       BreakStatement(0)>>, 0), 0),
    CompoundStatement(<<>>, 0),
    CompoundStatement(<<CompoundStatement(<<RefAssign(NameX, RefK(1))>>, 0),
                        RefVar(NameX)>>, 0) }

\* int main() { stmts }
RefProgram(stmts) ==
  [type |-> "AST_PROGRAM", line |-> 0, column |-> 0,
   function |-> [type |-> "AST_FUNCTION", line |-> 0, column |-> 0,
                 name |-> NameMain, statements |-> stmts]]

GrammarPrograms ==
  { <<ReturnStatement(e, 0)>> : e \in GrammarExpressions }
  \cup { <<VariableDecl(NameX, RefK(0), 0), s, ReturnStatement(RefVar(NameX), 0)>> :
           s \in GrammarStatements }
  \cup { <<VariableDecl(name, RefK(1), 0),
           RefAssign(name, RefOp("TOKEN_PLUS", RefVar(name), RefK(1))),
           ReturnStatement(RefVar(name), 0)>> : name \in IdentifierSpellings }
  \cup { <<VariableDecl(name, NULL_NODE, 0), RefVar(name)>> : name \in IdentifierSpellings }

GrammarInputs ==
  { [kind |-> "grammar",
     lexemes |-> FunctionHeader \o StatementsLexemes(stmts) \o Fixed("TOKEN_CLOSE_BRACE"),
     tree |-> Shape(RefProgram(stmts))] : stmts \in GrammarPrograms }

RECURSIVE StraySemicolons(_)
StraySemicolons(n) ==
  IF n = 0 THEN <<>> ELSE Fixed("TOKEN_SEMICOLON") \o StraySemicolons(n - 1)

\* The statements whose ';' is left out: return statements, expression
\* statements and declarations.
SemicolonStatements ==
  { ReturnStatement(RefK(42), 0),
    ReturnStatement(RefVar(NameX), 0),
    ReturnStatement(RefOp("TOKEN_PLUS", RefVar(NameX), RefK(42)), 0),
    ReturnStatement(RefOp("TOKEN_STAR", RefK(2), RefVar(NameX)), 0),
    RefAssign(NameX, RefK(1)),
    RefAssign(NameX, RefVar(NameY)),
    RefOp("TOKEN_PLUS", RefVar(NameX), RefK(1)),
    RefVar(NameX),
    VariableDecl(NameY, NULL_NODE, 0),
    VariableDecl(NameY, RefK(42), 0),
    VariableDecl(NameY, RefVar(NameX), 0) }

\* What stands before the statement: nothing, a declaration, or as many
\* stray semicolons as the diagnostics list has room for at first ...
SemicolonPrefixes ==
  { <<>>, StatementLexemes(VariableDecl(NameX, NULL_NODE, 0)),
    StraySemicolons(MaxDiagnostics - 1) }

\* ... followed by the head of the statement it is nested in, if any ...
SemicolonWrappers ==
  { <<>>,
    Fixed("TOKEN_OPEN_BRACE"),
    Fixed("TOKEN_IF") \o Fixed("TOKEN_OPEN_PAREN") \o Identifier(NameX)
      \o Fixed("TOKEN_CLOSE_PAREN"),
    Fixed("TOKEN_IF") \o Fixed("TOKEN_OPEN_PAREN") \o Identifier(NameX)
      \o Fixed("TOKEN_CLOSE_PAREN") \o StatementLexemes(RefAssign(NameX, RefK(2)))
      \o Fixed("TOKEN_ELSE"),
    Fixed("TOKEN_WHILE") \o Fixed("TOKEN_OPEN_PAREN") \o Identifier(NameX)
      \o Fixed("TOKEN_CLOSE_PAREN") }

\* ... and what stands where the ';' should: its first token is the token
\* found in place of the ';' (the end of the file when it is empty).
FoundSequences ==
  { <<>>,
    Fixed("TOKEN_CLOSE_BRACE"),
    Fixed("TOKEN_CLOSE_BRACE") \o Fixed("TOKEN_CLOSE_BRACE"),
    Identifier(<<"_">>) \o Fixed("TOKEN_SEMICOLON") \o Fixed("TOKEN_CLOSE_BRACE"),
    IntegerLiteral(7) \o Fixed("TOKEN_SEMICOLON") \o Fixed("TOKEN_CLOSE_BRACE"),
    Fixed("TOKEN_OPEN_PAREN") \o Fixed("TOKEN_CLOSE_BRACE"),
    Fixed("TOKEN_CLOSE_PAREN") \o Fixed("TOKEN_SEMICOLON") \o Fixed("TOKEN_CLOSE_BRACE"),
    StatementLexemes(ReturnStatement(RefK(1), 0)) \o Fixed("TOKEN_CLOSE_BRACE"),
    StatementLexemes(VariableDecl(NameX, NULL_NODE, 0)) \o Fixed("TOKEN_CLOSE_BRACE"),
    Fixed("TOKEN_ELSE") \o StatementLexemes(RefVar(<<"_">>)) \o Fixed("TOKEN_CLOSE_BRACE") }

WithoutSemicolon(lexemes) == SubSeq(lexemes, 1, Len(lexemes) - 1)

\* found is the place of the token found in place of the ';'.
MissingSemicolonInputs ==
  { [kind |-> "missing_semicolon",
     lexemes |-> FunctionHeader \o prefix \o wrapper
                   \o WithoutSemicolon(StatementLexemes(s)) \o rest,
     statement |-> Shape(s),
     found |-> Len(FunctionHeader) + Len(prefix) + Len(wrapper)
                 + Len(StatementLexemes(s))] :
      prefix \in SemicolonPrefixes, wrapper \in SemicolonWrappers,
      s \in SemicolonStatements, rest \in FoundSequences }

\* int main() { ;; ... ; return 1; }  with n stray semicolons.
StraySemicolonInputs ==
  { [kind |-> "stray_semicolons",
     lexemes |-> FunctionHeader \o StraySemicolons(n)
                   \o StatementLexemes(ReturnStatement(RefK(1), 0))
                   \o Fixed("TOKEN_CLOSE_BRACE"),
     count |-> n] : n \in 0 .. MaxDiagnostics }

\* int main() { 1 ( = 2 ; return 1 ; }  and its like: an assignment whose
\* left side parse_primary gave up on just before the '='.
AbsentTargetInputs ==
  { [kind |-> "absent_target",
     lexemes |-> FunctionHeader \o before \o IntegerLiteral(1)
                   \o Fixed("TOKEN_OPEN_PAREN") \o Fixed("TOKEN_EQ") \o value
                   \o Fixed("TOKEN_SEMICOLON")
                   \o StatementLexemes(ReturnStatement(RefK(1), 0))
                   \o Fixed("TOKEN_CLOSE_BRACE")] :
      before \in {<<>>, Identifier(<<"x">>) \o Fixed("TOKEN_EQ"), Fixed("TOKEN_RETURN")},
      value \in {<<>>, IntegerLiteral(2), Identifier(<<"x">>)} }

ParseInputs == GrammarInputs \cup MissingSemicolonInputs \cup StraySemicolonInputs \cup AbsentTargetInputs

(***************************************************************************)
(* SpecParse: parser_create over the tokens of an input, then              *)
(* parser_parse_program.                                                   *)
(***************************************************************************)
InitParse ==
  /\ pc = "parser_create"
  /\ lexer = NoLexer
  /\ token = NoToken
  /\ lexed = [tokens |-> 0, skipped |-> 0]
  /\ errors = error_list_create
  /\ fault = FALSE
  /\ sem = NoWalk
  /\ gen = NoLowering
  /\ drv = NoDriver
  /\ parser = NoParser
  /\ heap = NoHeap

ParserCreate ==
  /\ pc = "parser_create"
  /\ \E input \in ParseInputs :
       parser' = [input |-> input, tokens |-> Layout(input.lexemes, 1, <<>>),
                  pos |-> 1, ast |-> NULL_NODE]
  /\ pc' = "parser_parse_program"
  /\ UNCHANGED <<heap, lexer, token, lexed, errors, fault, sem, gen, drv>>

ParserParseProgram ==
  /\ pc = "parser_parse_program"
  /\ \E r \in {parser_parse_program([parser_create(parser.tokens, errors)
                                       EXCEPT !.pos = parser.pos])} :
       /\ parser' = [parser EXCEPT !.pos = r.p.pos, !.ast = r.node]
       /\ errors' = r.p.errors
       /\ fault' = r.p.fault
       /\ pc' = IF r.p.fault THEN "fault" ELSE "parsed"
  /\ UNCHANGED <<heap, lexer, token, lexed, sem, gen, drv>>

NextParse == ParserCreate \/ ParserParseProgram

SpecParse == InitParse /\ [][NextParse]_vars

(***************************************************************************)
(* Properties of the parser.                                               *)
(***************************************************************************)
ParseDone == pc \in {"parsed", "fault"}

\* The token found where the ';' of the input's statement should stand.
FoundToken == current_token([tokens |-> parser.tokens, pos |-> parser.input.found])

MissingSemicolonRecordedAt(t) ==
  \E i \in 1 .. errors.count :
    /\ errors.errors[i].id = ERROR_SYNTAX_MISSING_SEMICOLON
    /\ errors.errors[i].line = t.line
    /\ errors.errors[i].column = t.column

(* C12. When the token after a return expression, an expression statement  *)
(* or a declaration is not ';', the parser has recorded a diagnostic with  *)
(* id 2003 at the line and column of the token found in its place, and the *)
(* statement is no node of the returned tree.                              *)
C12_MissingSemicolonReported ==
  ParseDone /\ parser.input.kind = "missing_semicolon" =>
    /\ MissingSemicolonRecordedAt(FoundToken)
    /\ parser.input.statement \notin { Shape(n) : n \in StatementNodes(parser.ast) }

(* C13. For a token sequence written out from a tree by the grammar,       *)
(* whatever the spelling of its identifiers, the parser records no         *)
(* diagnostic and returns that tree: binary levels nest to the left, unary *)
(* operators and assignment to the right, a ternary nests to the right     *)
(* with a full expression between '?' and ':'.                             *)
C13_GrammarParsesAsWritten ==
  ParseDone /\ parser.input.kind = "grammar" =>
    /\ ~fault
    /\ errors.count = 0
    /\ Shape(parser.ast) = parser.input.tree

(***************************************************************************)
(* Kinds of the tokens (TokenType, src/src/compiler.h).                    *)
(***************************************************************************)
\* The lexeme of the token the last call returned.
TokenLexeme == SubSeq(lexer.source, token.start + 1, token.start + token.length)

Keywords ==
  {"TOKEN_INT", "TOKEN_RETURN", "TOKEN_IF", "TOKEN_ELSE", "TOKEN_WHILE", "TOKEN_DO",
   "TOKEN_BREAK", "TOKEN_CONTINUE"}

KeywordKind(lexeme) ==
  IF \E k \in Keywords : TokenText(k) = lexeme
  THEN CHOOSE k \in Keywords : TokenText(k) = lexeme
  ELSE "TOKEN_IDENTIFIER"

LexicalErrorAt(t) ==
  \E i \in 1 .. errors.count :
    /\ errors.errors[i].id = ERROR_LEX_INVALID_CHARACTER
    /\ errors.errors[i].line = t.line
    /\ errors.errors[i].column = t.column

(* C14. A token whose lexeme is int, return, if, else, while, do, break or *)
(* continue has the kind of that keyword, any other identifier-shaped      *)
(* lexeme the identifier kind; the lexemes '?' and ':' have their          *)
(* punctuator kinds and no lexical error is recorded for them.             *)
C14_KeywordAndPunctuatorKinds ==
  pc = "lexing" /\ token.length > 0 =>
    /\ is_identifier_start(TokenLexeme[1]) => token.type = KeywordKind(TokenLexeme)
    /\ TokenLexeme = <<"?">> => token.type = "TOKEN_QUESTION" /\ ~LexicalErrorAt(token)
    /\ TokenLexeme = <<":">> => token.type = "TOKEN_COLON" /\ ~LexicalErrorAt(token)

(***************************************************************************)
(* SpecErr: a list from error_list_create, then calls of error_list_add    *)
(* with any level, with and without an arena.  The levels of the first     *)
(* MaxFreeAdds entries and of the entries past the initial capacity are    *)
(* free; between them an entry repeats the level of the one before it.     *)
(***************************************************************************)
InitErr ==
  /\ pc = "error_list_add"
  /\ lexer = NoLexer
  /\ token = NoToken
  /\ lexed = [tokens |-> 0, skipped |-> 0]
  /\ errors = error_list_create
  /\ fault = FALSE
  /\ sem = NoWalk
  /\ gen = NoLowering
  /\ drv = NoDriver
  /\ parser = NoParser
  /\ heap = NoHeap

ErrorListAdd ==
  /\ pc = "error_list_add"
  /\ errors.count < MaxDiagnostics
  /\ \E level \in ErrorLevels, arena \in {NULL, ARENA}, id \in {ERROR_SYNTAX_MISSING_SEMICOLON} :
       /\ IF errors.count < MaxFreeAdds \/ errors.count >= ERROR_LIST_INITIAL_CAPACITY
          THEN TRUE
          ELSE level = errors.errors[errors.count].level
       /\ fault' = error_list_add_faults(errors, arena)
       /\ pc' = IF fault' THEN "fault" ELSE pc
       /\ errors' = error_list_add(errors, arena, id, level, 1, errors.count + 1)
  /\ UNCHANGED <<heap, parser, lexer, token, lexed, sem, gen, drv>>

NextErr == ErrorListAdd

SpecErr == InitErr /\ [][NextErr]_vars

HoldsFatalEntry(errs) ==
  \E i \in 1 .. errs.count : errs.errors[i].level # "WARNING"

StraySemicolonReports ==
  [i \in 1 .. parser.input.count |->
     [line |-> parser.tokens[Len(FunctionHeader) + i].line,
      column |-> parser.tokens[Len(FunctionHeader) + i].column]]

(* C16. Every call of error_list_add appends exactly one entry, in call    *)
(* order, however many entries the list already holds (at count 16 too):   *)
(* no diagnostic is lost and the call never faults.                        *)
C16_EveryDiagnosticRecorded ==
  ParseDone /\ parser.input.kind = "stray_semicolons" =>
    /\ ~fault
    /\ Recorded(ERROR_SYNTAX_EXPECTED_EXPRESSION) = StraySemicolonReports

(***************************************************************************)
(* The arena (src/arena.c).  A chunk is its capacity and its used count;   *)
(* a returned pointer is the chunk it points into and its distance in      *)
(* bytes from the start of the chunk's storage (mem).                      *)
(***************************************************************************)
ARENA_BLOCK_CAPACITY == 4096

\* alignof(void*), and sizeof(size_t), the element type of mem.
ALIGNOF_POINTER == 8
SIZEOF_SIZE_T == 8

ALIGN_UP(x, align) == ((x + (align - 1)) \div align) * align

\* mem + used in bytes: mem is an array of size_t.
mem_plus(used) == used * SIZEOF_SIZE_T

arena_create == [head |-> <<>>]

\* head is the list of chunks, newest first.
arena_alloc(a, size) ==
  LET grow == IF a.head = <<>> THEN TRUE
              ELSE Head(a.head).used + size > Head(a.head).capacity
      resolved_capacity == IF size < ARENA_BLOCK_CAPACITY THEN ARENA_BLOCK_CAPACITY
                           ELSE size
      chunks == IF grow
                THEN <<[id |-> Len(a.head) + 1, capacity |-> resolved_capacity,
                        used |-> 0]>> \o a.head
                ELSE a.head
      used == ALIGN_UP(Head(chunks).used, ALIGNOF_POINTER)
  IN  [arena |-> [head |-> <<[Head(chunks) EXCEPT !.used = used + size]>> \o Tail(chunks)],
       ptr |-> [chunk |-> Head(chunks).id, offset |-> mem_plus(used)]]

(***************************************************************************)
(* SpecArena: arena_create, then calls of arena_alloc.                     *)
(***************************************************************************)
\* Sizes of one byte, of a pointer, of a small and a large structure, of a
\* whole block and of more than a block.
AllocSizes == {1, 8, 24, 1000, ARENA_BLOCK_CAPACITY, ARENA_BLOCK_CAPACITY + 904}

InitArena ==
  /\ pc = "arena_alloc"
  /\ lexer = NoLexer
  /\ token = NoToken
  /\ lexed = [tokens |-> 0, skipped |-> 0]
  /\ errors = error_list_create
  /\ fault = FALSE
  /\ sem = NoWalk
  /\ gen = NoLowering
  /\ drv = NoDriver
  /\ parser = NoParser
  /\ heap = [head |-> arena_create.head, returned |-> <<>>]

ArenaAlloc ==
  /\ pc = "arena_alloc"
  /\ Len(heap.returned) < MaxAllocs
  /\ \E size \in AllocSizes :
       \E r \in {arena_alloc(heap, size)} :
         heap' = [head |-> r.arena.head,
                  returned |-> Append(heap.returned,
                                      [chunk |-> r.ptr.chunk, offset |-> r.ptr.offset,
                                       size |-> size])]
  /\ UNCHANGED <<pc, lexer, token, lexed, errors, fault, sem, gen, drv, parser>>

NextArena == ArenaAlloc

SpecArena == InitArena /\ [][NextArena]_vars

ChunkCapacity(id) ==
  LET c == CHOOSE c \in {heap.head[i] : i \in 1 .. Len(heap.head)} : c.id = id
  IN  c.capacity

RegionInsideChunk(r) == r.offset + r.size <= ChunkCapacity(r.chunk)

RegionsOverlap(r, q) ==
  /\ r.chunk = q.chunk
  /\ r.offset < q.offset + q.size
  /\ q.offset < r.offset + r.size

(* C17. Every region arena_alloc has returned lies inside the storage of   *)
(* its chunk, starts at a pointer-aligned address, and overlaps no other   *)
(* returned region.                                                        *)
C17_RegionsInsideAlignedDisjoint ==
  pc = "arena_alloc" =>
    \A i \in 1 .. Len(heap.returned) :
      /\ RegionInsideChunk(heap.returned[i])
      /\ heap.returned[i].offset % ALIGNOF_POINTER = 0
      /\ \A j \in 1 .. Len(heap.returned) :
           i # j => ~RegionsOverlap(heap.returned[i], heap.returned[j])

(***************************************************************************)
(* The instructions of a node in source order: the instructions the        *)
(* lowering appends (ir_emit_instruction) and the If regions it creates,   *)
(* in the order ir_generate_expression and ir_generate_statement come to   *)
(* them, each If holding the code of its two branches.  The instructions   *)
(* are those of the binary format, as ReadInstrs returns them.             *)
(***************************************************************************)
Ins(opcode, operand) ==
  ReadInstrs(emit_instruction(<<>>, [opcode |-> opcode, operand |-> operand]), 1, <<>>).instrs

\* The index of a local of node_context.
NodeLocal(name) ==
  LET scope == node_context("REGION_BLOCK", [is_expression |-> FALSE,
                                             region |-> NULL_REGION]).current_scope
  IN  scope[symbol_table_find(scope, name)].index

IfInstr(then, has_else, else) ==
  <<[op |-> WASM_IF, arg |-> 0, then |-> then, has_else |-> has_else, else |-> else]>>

RECURSIVE ExpressionInOrder(_)
ExpressionInOrder(e) ==
  CASE e.type = "AST_INTEGER_CONSTANT" -> Ins("IR_CONST_INT", e.value)
    [] e.type = "AST_VARIABLE_REF" -> Ins("IR_LOAD_LOCAL", NodeLocal(e.name))
    [] e.type = "AST_UNARY_OP" ->
         ExpressionInOrder(e.operand) \o Ins(UnaryOpcode(e.operator), 0)
    [] e.type = "AST_BINARY_OP" ->
         ExpressionInOrder(e.left) \o ExpressionInOrder(e.right)
           \o Ins(BinaryOpcode(e.operator), 0)
    [] e.type = "AST_ASSIGNMENT" ->
         ExpressionInOrder(e.value) \o Ins("IR_STORE_LOCAL", NodeLocal(e.name))
           \o Ins("IR_LOAD_LOCAL", NodeLocal(e.name))
    [] e.type = "AST_TERNARY_EXPRESSION" ->
         ExpressionInOrder(e.condition)
           \o IfInstr(ExpressionInOrder(e.true_expression), TRUE,
                      ExpressionInOrder(e.false_expression))

RECURSIVE StatementInOrder(_)
StatementInOrder(s) ==
  CASE s.type = "NULL" -> <<>>
    [] s.type = "AST_RETURN_STATEMENT" ->
         ExpressionInOrder(s.expression) \o Ins("IR_RETURN", 0)
    [] s.type = "AST_VARIABLE_DECL" ->
         IF s.initializer.type = "NULL" THEN <<>>
         ELSE ExpressionInOrder(s.initializer)
                \o Ins("IR_STORE_LOCAL", Len(node_context("REGION_BLOCK",
                         [is_expression |-> FALSE, region |-> NULL_REGION]).locals))
    [] s.type = "AST_IF_STATEMENT" ->
         ExpressionInOrder(s.condition)
           \o IfInstr(StatementInOrder(s.then_statement), s.else_statement.type # "NULL",
                      StatementInOrder(s.else_statement))
    [] OTHER -> ExpressionInOrder(s) \o Ins("IR_POP", 0)

\* The statements ir_generate_statement has a case for.
IsLowered(node) ==
  node.type \notin {"AST_WHILE_STATEMENT", "AST_COMPOUND_STATEMENT",
                    "AST_BREAK_STATEMENT", "AST_CONTINUE_STATEMENT"}

\* The instructions without the block types of their ifs.
RECURSIVE WithoutBlockTypes(_)
WithoutBlockTypes(instrs) ==
  [i \in 1 .. Len(instrs) |->
     IF instrs[i].op = WASM_IF
     THEN [instrs[i] EXCEPT !.arg = 0, !.then = WithoutBlockTypes(@),
                            !.else = WithoutBlockTypes(@)]
     ELSE instrs[i]]

EmittedInstrs == ReadInstrs(gen.code, 1, <<>>)

(* C18. The emitter writes the instructions and the child regions of the   *)
(* region of a node in source order, and omits no child region, one        *)
(* created for the condition of an If region included.                     *)
C18_EmittedInSourceOrder ==
  pc = "emitted" /\ IsLowered(gen.node) =>
    /\ EmittedInstrs.stop = "eof"
    /\ WithoutBlockTypes(EmittedInstrs.instrs)
         = IF gen.kind = "expression" THEN ExpressionInOrder(gen.node)
           ELSE StatementInOrder(gen.node)

(* C19. a && b yields 1 when both operands are nonzero and 0 otherwise,    *)
(* and b is not evaluated when a is zero; a || b yields 1 when either      *)
(* operand is nonzero and 0 otherwise, and b is not evaluated when a is    *)
(* nonzero: the compiled program returns what the C program returns.       *)
C19_LogicalOperators ==
  (pc = "ran" /\ errors.count = 0 /\ drv.ast \in {ProgramOf(stmts) : stmts \in LogicalSources})
    => /\ CMain(drv.ast).defined
       /\ drv.run = [status |-> "value", value |-> CMain(drv.ast).value]

\* The If region created for the node itself: the first region created after
\* the region the node is lowered into.
NodeIfRegion == gen.regions[2]

\* The if instructions at the top level of the emitted code.
EmittedIfs ==
  LET IsIf(inst) == inst.op = WASM_IF
  IN  SelectSeq(EmittedInstrs.instrs, IsIf)

(* C20. The If region of a ternary has is_expression true and is emitted   *)
(* as 0x04 0x7F with both branches; the If region of an if statement has   *)
(* is_expression false and is emitted as 0x04 0x40.                        *)
C20_BlockTypeFollowsKind ==
  /\ pc \in {"lowered", "emitted"}
       /\ gen.node.type \in {"AST_TERNARY_EXPRESSION", "AST_IF_STATEMENT"}
     => /\ NodeIfRegion.type = "REGION_IF"
        /\ NodeIfRegion.is_expression = (gen.node.type = "AST_TERNARY_EXPRESSION")
  /\ pc = "emitted" /\ gen.node.type = "AST_TERNARY_EXPRESSION"
     => /\ Len(EmittedIfs) = 1
        /\ EmittedIfs[1].arg = WASM_I32_TYPE
        /\ EmittedIfs[1].has_else
  /\ pc = "emitted" /\ gen.node.type = "AST_IF_STATEMENT"
     => /\ Len(EmittedIfs) = 1
        /\ EmittedIfs[1].arg = WASM_VOID_TYPE

(***************************************************************************)
(* The frame of a while statement (src/src/codegen.c 49-54).               *)
(***************************************************************************)
WASM_BLOCK == 2
WASM_LOOP == 3
WASM_BR == 12
WASM_BR_IF == 13

\* The code emitted for a node lowered on its own into a block region.
NodeCode(kind, node) ==
  LET ctx == node_context("REGION_BLOCK", [is_expression |-> FALSE, region |-> NULL_REGION])
      lowered == IF kind = "expression" THEN ir_generate_expression(ctx, node)
                 ELSE ir_generate_statement(ctx, node)
  IN  emit_region([data |-> <<>>, fault |-> FALSE], lowered.regions, 0).data

WhileFrame(condition, body) ==
  <<WASM_BLOCK, WASM_VOID_TYPE, WASM_LOOP, WASM_VOID_TYPE>>
    \o condition \o <<WASM_I32_EQZ, WASM_BR_IF, 1>>
    \o body \o <<WASM_BR, 0, WASM_END, WASM_END>>

(* C21. A while statement is lowered to a Loop region and emitted as       *)
(* block 0x40, loop 0x40, condition, i32.eqz, br_if 1, body, br 0, end,    *)
(* end.                                                                    *)
C21_WhileFrame ==
  pc = "emitted" /\ gen.node.type = "AST_WHILE_STATEMENT" =>
    /\ \E i \in 1 .. Len(gen.regions) : gen.regions[i].type = "REGION_LOOP"
    /\ gen.code = WhileFrame(NodeCode("expression", gen.node.condition),
                             NodeCode("statement", gen.node.body))

(***************************************************************************)
(* SpecParseSteps: parser_parse_program taken one iteration of the         *)
(* statement-list loop of parse_function at a time.                        *)
(***************************************************************************)
\* parse_function up to its statement loop: the function node, or the
\* failure of the header.
function_open(p) ==
  LET a == advance_token(p)
      name == current_token(a)
      b == advance_token(a)
      c == advance_token(b)
      d == advance_token(c)
      Fail(q, error_id) == [ok |-> FALSE, p |-> synchronize(report_error(q, error_id))]
  IN  IF ~At(p, "TOKEN_INT") THEN Fail(p, ERROR_SYNTAX_EXPECTED_TOKEN)
      ELSE IF name.type # "TOKEN_IDENTIFIER" THEN Fail(a, ERROR_SYNTAX_EXPECTED_TOKEN)
      ELSE IF ~At(b, "TOKEN_OPEN_PAREN") THEN Fail(b, ERROR_SYNTAX_MISSING_PAREN)
      ELSE IF ~At(c, "TOKEN_CLOSE_PAREN") THEN Fail(c, ERROR_SYNTAX_MISSING_PAREN)
      ELSE IF ~At(d, "TOKEN_OPEN_BRACE") THEN Fail(d, ERROR_SYNTAX_MISSING_BRACE)
      ELSE [ok |-> TRUE, p |-> advance_token(d),
            node |-> [type |-> "AST_FUNCTION", line |-> name.line,
                      column |-> name.column, name |-> name.text,
                      statements |-> <<>>]]

\* The recovery of the loop without its forced advance.
statement_iteration_recover_stuck(prev, stmts, s) == [statements |-> stmts, p |-> s]

\* One iteration of a statement-list loop: the statement is stored, or the
\* parser synchronizes and, when that did not move it, advances one token.
statement_iteration_recover(prev, stmts, s) ==
  [statements |-> stmts, p |-> IF s.pos = prev THEN advance_token(s) ELSE s]

statement_iteration_parsed(prev, stmts, stmt) ==
  IF IsNull(stmt) THEN statement_iteration_recover(prev, stmts, synchronize(stmt.p))
  ELSE [statements |-> Append(stmts, stmt.node), p |-> stmt.p]

statement_iteration(p, stmts) ==
  statement_iteration_parsed(p.pos, stmts, parse_statement(p))

\* Token sequences whose function header is broken at each of its places.
BadHeaderInputs ==
  { [kind |-> "bad_header",
     lexemes |-> SubSeq(FunctionHeader, 1, n - 1) \o Fixed("TOKEN_SEMICOLON")
                   \o SubSeq(FunctionHeader, n + 1, Len(FunctionHeader))
                   \o StatementLexemes(ReturnStatement(RefK(1), 0))
                   \o Fixed("TOKEN_CLOSE_BRACE")] : n \in 1 .. Len(FunctionHeader) }

\* n statements  1 ;  one after the other.
ManyStatements(n) ==
  [i \in 1 .. 2 * n |->
     IF i % 2 = 1 THEN IntegerLiteral(1)[1] ELSE Fixed("TOKEN_SEMICOLON")[1]]

\* Layout, taken LayoutBlock lexemes at a time.
LayoutBlock == 32

RECURSIVE LayoutLong(_, _, _)
LayoutRest(lexemes, first, acc) ==
  LayoutLong(SubSeq(lexemes, LayoutBlock + 1, Len(lexemes)),
             first[LayoutBlock].column + Len(first[LayoutBlock].text) + 1,
             acc \o first)

LayoutLong(lexemes, column, acc) ==
  IF Len(lexemes) <= LayoutBlock THEN acc \o Layout(lexemes, column, <<>>)
  ELSE LayoutRest(lexemes, Layout(SubSeq(lexemes, 1, LayoutBlock), column, <<>>), acc)

\* int main() { 1; 1; ... return 1; }  with one statement less than the array
\* of a statement list holds, and with one more.
ManyStatementsInputs ==
  { [kind |-> "many_statements", count |-> n,
     lexemes |-> FunctionHeader \o ManyStatements(n)
                   \o StatementLexemes(ReturnStatement(RefK(1), 0))
                   \o Fixed("TOKEN_CLOSE_BRACE")] :
      n \in {MAX_STATEMENTS - 2, MAX_STATEMENTS + 1} }

\* struct Parser at the place the run has come to.
ParserNow == [parser_create(parser.tokens, errors) EXCEPT !.pos = parser.pos]

InitParseSteps ==
  /\ pc = "parse_function"
  /\ \E input \in ParseInputs \cup BadHeaderInputs \cup ManyStatementsInputs :
       parser = [input |-> input, tokens |-> LayoutLong(input.lexemes, 1, <<>>),
                 pos |-> 1, ast |-> NULL_NODE, function |-> NULL_NODE]
  /\ heap = NoHeap
  /\ lexer = NoLexer
  /\ token = NoToken
  /\ lexed = [tokens |-> 0, skipped |-> 0]
  /\ errors = error_list_create
  /\ fault = FALSE
  /\ sem = NoWalk
  /\ gen = NoLowering
  /\ drv = NoDriver

ParseFunctionOpen ==
  /\ pc = "parse_function"
  /\ \E r \in {function_open(ParserNow)} :
       /\ parser' = [parser EXCEPT !.pos = r.p.pos,
                                   !.function = IF r.ok THEN r.node ELSE NULL_NODE]
       /\ errors' = r.p.errors
       /\ fault' = r.p.fault
       /\ pc' = IF r.p.fault THEN "fault" ELSE IF r.ok THEN "statement_list" ELSE "parsed"
  /\ UNCHANGED <<heap, lexer, token, lexed, sem, gen, drv>>

ParseStatement ==
  /\ pc = "statement_list"
  /\ current_token(ParserNow).type \notin {"TOKEN_CLOSE_BRACE", "TOKEN_EOF"}
  /\ \E r \in {statement_iteration(ParserNow, parser.function.statements)} :
       \* statements[statement_count++] = stmt is not guarded in parse_function:
       \* past MAX_STATEMENTS it writes behind the array, which the run may
       \* or may not survive.
       \E crashed \in IF Len(r.statements) > MAX_STATEMENTS THEN BOOLEAN ELSE {FALSE} :
         /\ parser' = [parser EXCEPT !.pos = r.p.pos, !.function.statements = r.statements]
         /\ errors' = r.p.errors
         /\ fault' = (r.p.fault \/ crashed)
         /\ pc' = IF r.p.fault \/ crashed THEN "fault" ELSE pc
  /\ UNCHANGED <<heap, lexer, token, lexed, sem, gen, drv>>

ParseFunctionClose ==
  /\ pc = "statement_list"
  /\ current_token(ParserNow).type \in {"TOKEN_CLOSE_BRACE", "TOKEN_EOF"}
  /\ \E r \in {program_function(
                 [type |-> "AST_PROGRAM", line |-> parser.tokens[1].line,
                  column |-> parser.tokens[1].column, function |-> NULL_NODE],
                 function_close([parser.function EXCEPT !.statements = <<>>],
                                [statements |-> parser.function.statements,
                                 p |-> ParserNow]))} :
       /\ parser' = [parser EXCEPT !.pos = r.p.pos, !.ast = r.node]
       /\ errors' = r.p.errors
       /\ fault' = r.p.fault
       /\ pc' = IF r.p.fault THEN "fault" ELSE "parsed"
  /\ UNCHANGED <<heap, lexer, token, lexed, sem, gen, drv>>

NextParseSteps ==
  \/ ParseFunctionOpen
  \/ ParseStatement
  \/ ParseFunctionClose

SpecParseSteps == InitParseSteps /\ [][NextParseSteps]_vars

\* The iteration of a statement-list loop that starts at token pos.
IterationFrom(pos) ==
  statement_iteration([parser_create(parser.tokens, error_list_create) EXCEPT !.pos = pos], <<>>)

LoopEnds(pos) ==
  current_token([parser_create(parser.tokens, error_list_create) EXCEPT !.pos = pos]).type
    \in {"TOKEN_CLOSE_BRACE", "TOKEN_EOF"}

\* The steps parser_parse_program can still take: one for the header, one
\* for the closing brace, and at most one for each token not yet consumed.
StepsLeft ==
  CASE pc = "parse_function" -> Len(parser.tokens) + 3
    [] pc = "statement_list" -> Len(parser.tokens) + 2 - parser.pos
    [] OTHER -> 0

(* C22. parser_parse_program terminates on every token sequence: an         *)
(* iteration of a statement-list loop, started at any token behind the      *)
(* function header that does not end the loop, leaves the parser at a later *)
(* token unless the run ends there; the loop of the function body moves     *)
(* forward with every iteration;                                            *)
(* and every step of the run lowers a natural number that is zero exactly   *)
(* when the run has ended.                                                  *)
C22_ParserTerminates ==
  /\ [](pc = "parse_function" =>
          \A pos \in Len(FunctionHeader) + 1 .. Len(parser.tokens) :
            LoopEnds(pos) \/ IterationFrom(pos).p.fault \/ IterationFrom(pos).p.pos > pos)
  /\ [][pc = "statement_list" /\ pc' = "statement_list" => parser'.pos > parser.pos]_vars
  /\ [](StepsLeft >= 0 /\ (StepsLeft = 0 <=> ParseDone))
  /\ [][StepsLeft' < StepsLeft]_vars

\* The loop has recovered from statements that left the parser where it was.
C22_Witness ==
  /\ pc = "statement_list"
  /\ parser.input.kind = "stray_semicolons"
  /\ errors.count >= 2
  /\ parser.function.statements = <<>>
  /\ current_token(ParserNow).type = "TOKEN_SEMICOLON"
  /\ IterationFrom(parser.pos).p.pos = parser.pos + 1
  /\ synchronize(parse_statement(ParserNow).p).pos = parser.pos

\* Two entries of the error list carry the same line and column.
SamePosition(i, j) ==
  /\ errors.errors[i].line = errors.errors[j].line
  /\ errors.errors[i].column = errors.errors[j].column

\* The erroneous constructs of an input of ParseInputs.
ErroneousConstructs(input) ==
  CASE input.kind = "missing_semicolon" -> 1
    [] input.kind = "stray_semicolons" -> input.count
    [] OTHER -> 0

(* C23. Each syntactic error produces exactly one diagnostic: when the      *)
(* parser has returned, no two diagnostics carry the same token position,   *)
(* and a program with one missing semicolon, or with n stray semicolons,    *)
(* has one diagnostic, or n.                                                *)
C23_OneDiagnosticPerError ==
  pc = "parsed" =>
    /\ \A i, j \in 1 .. errors.count : i # j => ~SamePosition(i, j)
    /\ parser.input.kind \in {"missing_semicolon", "stray_semicolons"} =>
         errors.count = ErroneousConstructs(parser.input)

(* C24. The parser never reads a field of an absent subtree: when the left  *)
(* operand of an assignment failed to parse and the current token is '=',   *)
(* parse_assignment_expression returns absent or reports an error, and the  *)
(* run of the parser ends in the ordinary way.                              *)
C24_NoReadOfAbsentSubtree ==
  ParseDone /\ parser.input.kind = "absent_target" =>
    /\ ~fault
    /\ errors.count >= 1

\* The "too many statements in block" diagnostic is in the error list.
TooManyStatementsReported ==
  \E i \in 1 .. errors.count : errors.errors[i].id = ERROR_SYNTAX_UNEXPECTED_TOKEN

(* C25. The number of statements stored in a statement list never exceeds   *)
(* MAX_STATEMENTS, in a function body as in a block, and an input with more *)
(* statements than that ends with a diagnostic.                             *)
C25_StatementCountCapped ==
  /\ pc = "statement_list" => Len(parser.function.statements) <= MAX_STATEMENTS
  /\ ( /\ ParseDone
       /\ parser.input.kind = "many_statements"
       /\ parser.input.count > MAX_STATEMENTS ) => TooManyStatementsReported

\* The diagnostics with the given id that the step adds to the error list.
AddedWithId(id) ==
  Cardinality({ i \in errors.count + 1 .. errors'.count : errors'.errors[i].id = id })

(* C26. The walk reports every error in one pass: the analysis of an        *)
(* Assignment whose target is not declared also records 3001 for every      *)
(* undeclared name in the assigned value, and the analysis of a VarDecl     *)
(* that redefines a name also records 3001 for every undeclared name in its *)
(* initializer.                                                             *)
C26_EveryErrorInOnePass ==
  [][ /\ ( /\ AtStatement({"AST_ASSIGNMENT"})
           /\ ~symbol_table_lookup(sem.current_scope, NextStatement.name) )
         => AddedWithId(ERROR_SEM_UNDEFINED_VARIABLE)
              = 1 + Len(UndeclaredUses(NextStatement.value, sem.current_scope))
      /\ ( /\ AtStatement({"AST_VARIABLE_DECL"})
           /\ symbol_table_lookup_current_scope(sem.current_scope, NextStatement.name) )
         => /\ AddedWithId(ERROR_SEM_REDEFINITION) = 1
            /\ AddedWithId(ERROR_SEM_UNDEFINED_VARIABLE)
                 = Len(UndeclaredUses(NextStatement.initializer, sem.current_scope)) ]_vars

\* The walk is at the end of a block, about to restore the scope.
AtEndOfCompound ==
  /\ pc = "analyze_statement"
  /\ sem.pending # <<>>
  /\ Head(sem.pending).kind = "restore_scope"

(* C27. Analyzing a Compound leaves the current scope as it was before the  *)
(* Compound, errors inside or not: the step that ends the block makes the   *)
(* scope chain equal to the chain the block was entered with, so that the   *)
(* enclosing scopes hold the names they held and a name declared inside is  *)
(* visible afterwards only if it was visible before.                        *)
C27_CompoundRestoresScope ==
  [][ AtEndOfCompound =>
        /\ sem'.current_scope = Head(sem.pending).previous_scope
        /\ \A i \in 1 .. Len(sem.current_scope[Len(sem.current_scope)]) :
             LET name == sem.current_scope[Len(sem.current_scope)][i]
             IN  symbol_table_lookup(sem'.current_scope, name)
                   => symbol_table_lookup(Head(sem.pending).previous_scope, name) ]_vars

\* The block  { int y; int y = x; }  at the start of a function has been
\* analyzed: y was declared inside, the redefinition was reported inside, and
\* the scope of the function is current again and empty.
C27_Witness ==
  /\ pc = "analyze_statement"
  /\ Len(sem.walked) = 3
  /\ sem.walked[1].type = "AST_COMPOUND_STATEMENT"
  /\ sem.walked[2].type = "AST_VARIABLE_DECL"
  /\ sem.walked[3].depth = 2
  /\ errors.count = 1
  /\ errors.errors[1].id = ERROR_SEM_REDEFINITION
  /\ ~AtEndOfCompound
  /\ sem.current_scope = <<<<>>>>

\* The names of the VarDecls ir_generate_statement lowers, in the order it
\* meets them: those of the function body and of the branches of its ifs.
RECURSIVE LoweredDeclarations(_)
LoweredDeclarationsIn(s) ==
  CASE s.type = "AST_VARIABLE_DECL" -> <<s.name>>
    [] s.type = "AST_IF_STATEMENT" ->
         LoweredDeclarations(<<s.then_statement, s.else_statement>>)
    [] OTHER -> <<>>

LoweredDeclarations(stmts) ==
  IF stmts = <<>> THEN <<>>
  ELSE LoweredDeclarationsIn(Head(stmts)) \o LoweredDeclarations(Tail(stmts))

\* The local indices that the local.get and local.set of decoded code name.
RECURSIVE LocalOperands(_)
LocalOperands(instrs) ==
  IF instrs = <<>> THEN {}
  ELSE LET inst == Head(instrs)
       IN  (CASE inst.op \in {WASM_LOCAL_GET, WASM_LOCAL_SET} -> {inst.arg}
              [] inst.op = WASM_IF -> LocalOperands(inst.then) \cup LocalOperands(inst.else)
              [] OTHER -> {})
             \cup LocalOperands(Tail(instrs))

\* The function body in the code section of the file the driver wrote.
WrittenBody ==
  LET code == ReadCode(drv.file.data, ReadSections(drv.file.data, Len(WasmHeader) + 1)[4])
  IN  ReadBody(drv.file.data, code.start, code.size)

(* C28. Every lowered VarDecl gets the slot whose index is the number of    *)
(* VarDecls lowered before it, so no two declarations share a slot and      *)
(* locals[i].index = i; the operand of every LOAD_LOCAL and STORE_LOCAL is  *)
(* below the local count, which is the count the one i32 local group of the *)
(* code section declares, and so is every local index in the emitted code.  *)
C28_LocalSlots ==
  /\ Called("ir_generate") /\ drv.ir_module.type # "NULL" =>
       LET func == drv.ir_module.functions[1]
       IN  /\ [i \in 1 .. Len(func.locals) |-> func.locals[i].name]
                = LoweredDeclarations(drv.ast.function.statements)
           /\ \A i \in 1 .. Len(func.locals) : func.locals[i].index = i - 1
           /\ func.local_count = Len(func.locals)
           /\ \A r \in 1 .. Len(func.regions) :
                \A k \in 1 .. Len(func.regions[r].instructions) :
                  LET inst == func.regions[r].instructions[k]
                  IN  inst.opcode \in {"IR_LOAD_LOCAL", "IR_STORE_LOCAL"}
                        => inst.operand \in 0 .. func.local_count - 1
  /\ Called("codegen_emit_wasm") /\ drv.file.written =>
       /\ WrittenBody.ok
       /\ WrittenBody.local_count = drv.ir_module.functions[1].local_count
       /\ LocalOperands(WrittenBody.instrs) \subseteq 0 .. WrittenBody.local_count - 1

\* The file of  int x = 4; int y = x * x; ... return (y >= 16) + ...;  is
\* written: two slots, both read in the code.
C28_Witness ==
  /\ Called("codegen_emit_wasm")
  /\ drv.file.written
  /\ drv.ir_module.functions[1].local_count = 2
  /\ LocalOperands(WrittenBody.instrs) = {0, 1}
  /\ drv.ir_module.functions[1].locals[2] = [name |-> "y", index |-> 1]

(***************************************************************************)
(* SpecLeb: one call of buffer_write_leb128_u32 or buffer_write_leb128_i32 *)
(* on a buffer that holds some bytes already, for the 32-bit values at and *)
(* next to every power of two.                                             *)
(***************************************************************************)
INT_BITS == 32

\* The int32_t values 2^k - 1, 2^k, 2^k + 1 and their negatives; read as
\* uint32_t the negative ones are the values from 2^31 on.
Int32Values ==
  UNION { {2^k - 1, 2^k, 2^k + 1, -(2^k) - 1, -(2^k), -(2^k) + 1} : k \in 0 .. INT_BITS - 2 }
    \cup {INT32_MAX, INT32_MIN, INT32_MIN + 1}

BuffersBefore == {<<>>, <<0>>, <<255, 1>>}

InitLeb ==
  /\ pc = "buffer_write_leb128"
  /\ \E buf \in BuffersBefore : gen = [buffer |-> buf, before |-> buf]
  /\ lexer = NoLexer
  /\ token = NoToken
  /\ lexed = [tokens |-> 0, skipped |-> 0]
  /\ errors = error_list_create
  /\ fault = FALSE
  /\ sem = NoWalk
  /\ drv = NoDriver
  /\ parser = NoParser
  /\ heap = NoHeap

BufferWriteLeb128U32 ==
  /\ pc = "buffer_write_leb128"
  /\ \E value \in Int32Values :
       gen' = [buffer |-> buffer_write_leb128_u32(gen.buffer, value),
               before |-> gen.buffer, type |-> "uint32_t", value |-> value]
  /\ pc' = "written"
  /\ UNCHANGED <<heap, parser, lexer, token, lexed, errors, fault, sem, drv>>

BufferWriteLeb128I32 ==
  /\ pc = "buffer_write_leb128"
  /\ \E value \in Int32Values :
       gen' = [buffer |-> buffer_write_leb128_i32(gen.buffer, value),
               before |-> gen.buffer, type |-> "int32_t", value |-> value]
  /\ pc' = "written"
  /\ UNCHANGED <<heap, parser, lexer, token, lexed, errors, fault, sem, drv>>

NextLeb == BufferWriteLeb128U32 \/ BufferWriteLeb128I32

SpecLeb == InitLeb /\ [][NextLeb]_vars

\* The bytes the call has written behind the bytes the buffer held.
Encoded == SubSeq(gen.buffer, Len(gen.before) + 1, Len(gen.buffer))

\* Unsigned LEB128 of at most four bytes: seven bits a byte, low bits first.
RECURSIVE DecodeLow(_)
DecodeLow(bytes) ==
  IF bytes = <<>> THEN 0 ELSE (Head(bytes) % 128) + 128 * DecodeLow(Tail(bytes))

\* The unsigned LEB128 value of one to five bytes as a uint32_t (its 32
\* bits), when it is one: a fifth byte holds the bits 28 to 31 and no more.
DecodeU32(bytes) ==
  LET low == DecodeLow(SubSeq(bytes, 1, IF Len(bytes) < 5 THEN Len(bytes) ELSE 4))
      top == IF Len(bytes) = 5 THEN bytes[5] % 128 ELSE 0
  IN  [ok |-> top < 16,
       value |-> low + (IF top >= 8 THEN top - 16 ELSE top) * 268435456]

\* The signed LEB128 value: bit 6 of the last byte is the sign.
RECURSIVE DecodeS32(_)
DecodeS32(bytes) ==
  IF Len(bytes) = 1
  THEN IF bytes[1] % 128 >= 64 THEN (bytes[1] % 128) - 128 ELSE bytes[1] % 128
  ELSE (Head(bytes) % 128) + 128 * DecodeS32(Tail(bytes))

(* C29. For every 32-bit value buffer_write_leb128_u32 ends after writing   *)
(* one to five bytes behind the bytes of the buffer, whose unsigned LEB128  *)
(* decoding is the value, and buffer_write_leb128_i32 does the same for the *)
(* signed decoding; every byte written but the last has its continuation    *)
(* bit set, and the last has not.                                           *)
C29_Leb128RoundTrip ==
  pc = "written" =>
    /\ SubSeq(gen.buffer, 1, Len(gen.before)) = gen.before
    /\ Len(Encoded) \in 1 .. 5
    /\ \A i \in 1 .. Len(Encoded) :
         /\ Encoded[i] \in 0 .. 255
         /\ (Encoded[i] >= 128) <=> (i < Len(Encoded))
    /\ gen.type = "uint32_t" => DecodeU32(Encoded).ok /\ DecodeU32(Encoded).value = gen.value
    /\ gen.type = "int32_t" => DecodeS32(Encoded) = gen.value

\* 2^32 - 1 has been written as a uint32_t, or -2^31 as an int32_t: five
\* bytes each.
C29_Witness ==
  /\ pc = "written"
  /\ Len(Encoded) = 5
  /\ \/ gen.type = "uint32_t" /\ gen.value = -1 /\ Encoded = <<255, 255, 255, 255, 15>>
     \/ gen.type = "int32_t" /\ gen.value = INT32_MIN /\ Encoded = <<128, 128, 128, 128, 120>>

\* The first token of the i-th statement of the function body of a program
\* written out from a tree, and the node the parser made of that statement.
StatementToken(i) ==
  parser.tokens[Len(FunctionHeader)
                  + Len(StatementsLexemes(SubSeq(parser.input.tree.function.statements,
                                                 1, i - 1))) + 1]

StatementNode(i) == parser.ast.function.statements[i]

\* The node stands at the token.
NodeAt(node, t) == node.line = t.line /\ node.column = t.column

\* The diagnostics of the semantic walk of an expression in a function that
\* has declared nothing.
DiagnosticsOf(expr) == analyze_expression(error_list_create, <<<<>>>>, expr).errors

(* C30. A tree node carries the line and column of the first token of its   *)
(* construct: in a program parsed as it was written, every statement node   *)
(* of the function body stands at the first token of its statement, and the *)
(* 3001 for an assignment to an undeclared variable stands at the           *)
(* identifier that is assigned.                                             *)
C30_NodeAtFirstToken ==
  ( /\ pc = "parsed"
    /\ parser.input.kind = "grammar"
    /\ errors.count = 0
    /\ Shape(parser.ast) = parser.input.tree ) =>
      \A i \in 1 .. Len(parser.ast.function.statements) :
        /\ NodeAt(StatementNode(i), StatementToken(i))
        /\ StatementNode(i).type = "AST_ASSIGNMENT" =>
             /\ DiagnosticsOf(StatementNode(i)).count >= 1
             /\ DiagnosticsOf(StatementNode(i)).errors[1].id = ERROR_SEM_UNDEFINED_VARIABLE
             /\ NodeAt(DiagnosticsOf(StatementNode(i)).errors[1], StatementToken(i))

====
